---- MODULE Spec2Model ----
(***************************************************************************)
(* LaunchDarkly JSON flag utility: the REST client (ld_json_flag/client.py) *)
(* and the interactive workflows (ld_json_flag/interactive.py) as a state   *)
(* machine.  One action per client method or workflow; each action runs the *)
(* whole handler against inputs (arguments, server responses, user input,   *)
(* editor behaviour) drawn from small sets, and records what the handler    *)
(* sent, printed and returned.                                              *)
(***************************************************************************)
EXTENDS Integers, Sequences, FiniteSets, TLC

VARIABLES
    project_key,   \* LaunchDarklyClient.project_key ("" stands for None)
    tmp_left,      \* number of temporary files the call left on disk
    pc,            \* "idle": the caller is about to call; "done": a call ended
    op,            \* name of the method or workflow that ran last
    arg,           \* its inputs
    requests,      \* HTTP requests it issued, in order
    console,       \* lines it printed about errors, in order
    result,        \* how it ended: a return value or an exception
    cli,           \* the run of main that made the call, NoCli when main did not
    client         \* LaunchDarklyClient's api_key, base_url and headers

vars == <<project_key, tmp_left, pc, op, arg, requests, console, result, cli, client>>

(***************************************************************************)
(* Bounds of the model.                                                    *)
(***************************************************************************)
MaxVariations == 3
MaxPages == 3

(***************************************************************************)
(* JSON values.  A scalar is [t, n]: t its Python type after json.load, n   *)
(* its number (bool: False = 0, True = 1, as bool is a subclass of int).    *)
(* A value is a scalar, a list, or a dict that may hold a tcp_port scalar.  *)
(***************************************************************************)
None == "None"

NoneS == [t |-> "null", n |-> 0]
IntS(n) == [t |-> "int", n |-> n]
BoolS(n) == [t |-> "bool", n |-> n]
FloatS(n) == [t |-> "float", n |-> n]
StrS(n) == [t |-> "str", n |-> n]

Dict(has, port) == [t |-> "dict", n |-> 0, has |-> has, port |-> port]
NonDict(t, n) == [t |-> t, n |-> n, has |-> FALSE, port |-> NoneS]

PortScalars ==
    {IntS(-1), IntS(0), IntS(443), IntS(65535), IntS(65536),
     BoolS(0), BoolS(1), FloatS(443), StrS(443), NoneS}

JsonValues ==
    {NonDict("str", 0), NonDict("list", 0), NonDict("null", 0),
     NonDict("int", 443), NonDict("bool", 1), NonDict("float", 443),
     Dict(FALSE, NoneS)}
    \cup {Dict(TRUE, s) : s \in PortScalars}

(***************************************************************************)
(* How a call ends.                                                        *)
(***************************************************************************)
Returned(v) ==
    [kind |-> "return", exc |-> "", msg |-> "", pos |-> 0, inner |-> "", ret |-> v]

Raised(exc, msg) ==
    [kind |-> "raise", exc |-> exc, msg |-> msg, pos |-> 0, inner |-> "", ret |-> None]

IsInstanceDict(json_obj) == json_obj.t = "dict"

IsInstanceInt(port_value) == port_value.t \in {"int", "bool"}

validate_tcp_port_json(json_obj) ==
    IF ~IsInstanceDict(json_obj)
    THEN Raised("ValueError", "JSON must be an object")
    ELSE IF ~json_obj.has
    THEN Raised("ValueError", "JSON must contain a tcp_port property")
    ELSE LET port_value == json_obj.port
         IN  IF ~IsInstanceInt(port_value)
             THEN Raised("ValueError", "tcp_port must be an integer")
             ELSE IF port_value.n < 0 \/ port_value.n > 65535
             THEN Raised("ValueError", "tcp_port must be between 0 and 65535")
             ELSE Returned(TRUE)

(***************************************************************************)
(* HTTP.  A request is what requests.get/post/patch was called with; the    *)
(* server's answer to it is an input of the action.                         *)
(***************************************************************************)
Request(method, path, project, flag, env, page, payload) ==
    [method |-> method, path |-> path, project |-> project, flag |-> flag,
     env |-> env, page |-> page, payload |-> payload]

\* requests.Response.raise_for_status raises HTTPError for 4xx and 5xx
RaiseForStatus(status) == 400 <= status /\ status < 600

\* variant: the response body is not printed
ErrorLinesStatusOnly(what, status) ==
    IF status >= 400 THEN << [text |-> what, status |-> status] >> ELSE << >>

ErrorLines(what, status) ==
    IF status >= 400
    THEN << [text |-> what, status |-> status],
            [text |-> "Response: ", status |-> status] >>
    ELSE << >>

HTTPError(status) ==
    [kind |-> "raise", exc |-> "HTTPError", msg |-> "raise_for_status",
     pos |-> status, inner |-> "", ret |-> None]

Outcome(reqs, lines, res) == [requests |-> reqs, console |-> lines, result |-> res]

\* project_key = project_key or self.project_key
\* variant: the client's field is preferred to the argument
ResolveProjectKeyPrefersClient(pk_arg, self_pk) == IF self_pk # "" THEN self_pk ELSE pk_arg

ResolveProjectKey(pk_arg, self_pk) == IF pk_arg # "" THEN pk_arg ELSE self_pk

\* variant: only server errors raise
ResponseRaisesServerOnly(status) == status >= 500 /\ RaiseForStatus(status)

\* if response.status_code >= 400: print ...; response.raise_for_status()
ResponseRaises(status) == status >= 400 /\ RaiseForStatus(status)

(***************************************************************************)
(* Paginated listing.  A page is the server's answer to one GET: its        *)
(* status, its items (the key may be missing) and its _links entry.  URLs   *)
(* of a listing are numbered: 1 is the starting URL, 0 stands for None.     *)
(***************************************************************************)
StopShapes ==
    {"no_links", "empty_links", "no_next", "null_next", "empty_next", "no_href"}

Link(shape, target) ==
    [has_links |-> shape # "no_links",
     links_truthy |-> shape \notin {"no_links", "empty_links"},
     has_next |-> shape \in {"null_next", "empty_next", "no_href", "href"},
     next_truthy |-> shape \in {"no_href", "href"},
     has_href |-> shape = "href",
     href |-> IF shape = "href" THEN target ELSE 0]

ItemNames ==
    << <<"i11", "i12", "i13">>, <<"i21", "i22", "i23">>, <<"i31", "i32", "i33">>,
       <<"i41", "i42", "i43">>, <<"i51", "i52", "i53">> >>

PageItems(i, count) == [k \in 1..count |-> ItemNames[i][k]]

\* variant: only the first item of a page is kept
ItemsFirstOnly(data) ==
    IF data.has_items /\ Len(data.items) > 0 THEN <<data.items[1]>> ELSE << >>

\* data.get("items", [])
Items(data) == IF data.has_items THEN data.items ELSE << >>

\* variant: a next link always leads back to the starting URL
NextUrlStartsOver(data) ==
    LET links == data.link
    IN  IF links.has_links /\ links.links_truthy /\ links.has_next /\ links.next_truthy
        THEN IF links.has_href THEN 1 ELSE 0
        ELSE 0

\* links = data.get("_links", {}); the next URL, or None
NextUrl(data) ==
    LET links == data.link
    IN  IF links.has_links /\ links.links_truthy /\ links.has_next /\ links.next_truthy
        THEN IF links.has_href THEN links.href ELSE 0
        ELSE 0

RECURSIVE FollowPages(_, _, _, _, _, _, _, _)
FollowPages(what, path, project, pages, url, all_items, reqs, lines) ==
    IF url = 0
    THEN Outcome(reqs, lines, Returned(all_items))
    ELSE LET response == pages[url]
             reqs2 == Append(reqs, Request("GET", path, project, "", "", url, None))
             lines2 == lines \o ErrorLines(what, response.status)
         IN  IF ResponseRaises(response.status)
             THEN Outcome(reqs2, lines2, HTTPError(response.status))
             ELSE FollowPages(what, path, project, pages, NextUrl(response),
                              all_items \o Items(response), reqs2, lines2)

get_projects(self_pk, pages) ==
    FollowPages("Error getting projects: ", "projects", "", pages, 1, << >>, << >>, << >>)

get_feature_flags(self_pk, pk_arg, pages) ==
    LET pk == ResolveProjectKey(pk_arg, self_pk)
    IN  IF pk = ""
        THEN Outcome(<< >>, << >>,
                     Raised("ValueError", "Project key is required to list feature flags"))
        ELSE FollowPages("Error getting feature flags: ", "flags", pk, pages, 1,
                         << >>, << >>, << >>)

(***************************************************************************)
(* The methods that issue one request.                                      *)
(***************************************************************************)
\* send one request; print and raise on an error status, else response.json()
Send(request, what, response) ==
    LET lines == ErrorLines(what, response.status)
    IN  IF ResponseRaises(response.status)
        THEN Outcome(<<request>>, lines, HTTPError(response.status))
        ELSE Outcome(<<request>>, lines, Returned(response.body))

\* response.json().get("environments", [])
Environments(body) == IF body.has_environments THEN body.environments ELSE << >>

get_environments(self_pk, pk_arg, response) ==
    LET pk == ResolveProjectKey(pk_arg, self_pk)
    IN  IF pk = ""
        THEN Outcome(<< >>, << >>,
                     Raised("ValueError", "Project key is required to list environments"))
        ELSE LET o == Send(Request("GET", "projects", pk, "", "", 0, None),
                           "Error getting project details: ", response)
             IN  IF o.result.kind = "return"
                 THEN Outcome(o.requests, o.console, Returned(Environments(response.body)))
                 ELSE o

get_feature_flag(self_pk, flag_key, pk_arg, response) ==
    LET pk == ResolveProjectKey(pk_arg, self_pk)
    IN  IF pk = ""
        THEN Outcome(<< >>, << >>,
                     Raised("ValueError", "Project key is required to get a feature flag"))
        ELSE Send(Request("GET", "flags", pk, flag_key, "", 0, None),
                  "Error getting feature flag details: ", response)

\* variant: only the first variation is validated
ValidateFirstOnly(variations, i) ==
    IF Len(variations) = 0
    THEN Returned(None)
    ELSE IF ~variations[1].has_value
    THEN Raised("KeyError", "value")
    ELSE LET r == validate_tcp_port_json(variations[1].value)
         IN  IF r.kind = "raise"
             THEN [kind |-> "raise", exc |-> "ValueError",
                   msg |-> "Validation failed for variation ",
                   pos |-> 1, inner |-> r.msg, ret |-> None]
             ELSE Returned(None)

\* variant: the position is reported as enumerate counts it, from 0
RECURSIVE ValidateZeroBased(_, _)
ValidateZeroBased(variations, i) ==
    IF i > Len(variations)
    THEN Returned(None)
    ELSE IF ~variations[i].has_value
    THEN Raised("KeyError", "value")
    ELSE LET r == validate_tcp_port_json(variations[i].value)
         IN  IF r.kind = "raise"
             THEN [kind |-> "raise", exc |-> "ValueError",
                   msg |-> "Validation failed for variation ",
                   pos |-> i - 1, inner |-> r.msg, ret |-> None]
             ELSE ValidateZeroBased(variations, i + 1)

\* for i, variation in enumerate(variations): validate, raise on the first failure
RECURSIVE ValidateVariations(_, _)
ValidateVariations(variations, i) ==
    IF i > Len(variations)
    THEN Returned(None)
    ELSE LET variation == variations[i]
         IN  IF ~variation.has_value
             THEN Raised("KeyError", "value")
             ELSE LET r == validate_tcp_port_json(variation.value)
                  IN  IF r.kind = "raise"
                      THEN [kind |-> "raise", exc |-> "ValueError",
                            msg |-> "Validation failed for variation ",
                            pos |-> i, inner |-> r.msg, ret |-> None]
                      ELSE ValidateVariations(variations, i + 1)

CreatePayload(flag_key, flag_name, variations) ==
    [name |-> flag_name, key |-> flag_key, kind |-> "json", variations |-> variations,
     temporary |-> FALSE, tags |-> <<"tcp", "network-config">>,
     defaults |-> [onVariation |-> 0, offVariation |-> 1]]

create_feature_flag(self_pk, flag_key, flag_name, variations, pk_arg, response) ==
    LET pk == ResolveProjectKey(pk_arg, self_pk)
    IN  IF pk = ""
        THEN Outcome(<< >>, << >>,
                     Raised("ValueError", "Project key is required to create a feature flag"))
        ELSE LET v == ValidateVariations(variations, 1)
             IN  IF v.kind = "raise"
                 THEN Outcome(<< >>, << >>, v)
                 ELSE Send(Request("POST", "flags", pk, "", "", 0,
                                   CreatePayload(flag_key, flag_name, variations)),
                           "Error creating feature flag: ", response)

\* variant: the patch replaces the variations by an empty list
UpdatePayloadWithoutVariations(variations) ==
    [comment |-> "Updated flag variations via LD JSON Flag Utility",
     patch |-> <<[op |-> "replace", path |-> "/variations", value |-> << >>]>>]

UpdatePayload(variations) ==
    [comment |-> "Updated flag variations via LD JSON Flag Utility",
     patch |-> <<[op |-> "replace", path |-> "/variations", value |-> variations]>>]

update_flag_variations(self_pk, flag_key, variations, pk_arg, response) ==
    LET pk == ResolveProjectKey(pk_arg, self_pk)
    IN  IF pk = ""
        THEN Outcome(<< >>, << >>,
                     Raised("ValueError", "Project key is required to update a feature flag"))
        ELSE LET v == ValidateVariations(variations, 1)
             IN  IF v.kind = "raise"
                 THEN Outcome(<< >>, << >>, v)
                 ELSE Send(Request("PATCH", "flags", pk, flag_key, "", 0,
                                   UpdatePayload(variations)),
                           "Error updating feature flag variations: ", response)

configure_environment_targeting(self_pk, flag_key, environment_key, targeting_rules, pk_arg, response) ==
    LET pk == ResolveProjectKey(pk_arg, self_pk)
    IN  IF pk = ""
        THEN Outcome(<< >>, << >>,
                     Raised("ValueError",
                            "Project key is required to configure targeting rules"))
        ELSE Send(Request("PATCH", "flags", pk, flag_key, environment_key, 0,
                          [instructions |-> <<[kind |-> "replaceRule",
                                               rules |-> targeting_rules]>>]),
                  "Error updating targeting rules for environment ", response)

(***************************************************************************)
(* JSON text.  The temporary file holds a sequence of tokens.  json.dumps   *)
(* writes a document (a list of variations); json.load parses the tokens    *)
(* back or raises JSONDecodeError.                                          *)
(***************************************************************************)
Tok(k) == [k |-> k, n |-> 0]

\* variant: booleans are written as the integers 1 and 0
ScalarTextBoolAsInt(s) ==
    CASE s.t = "int" -> << [k |-> "digits", n |-> s.n] >>
      [] s.t = "float" -> << [k |-> "digits.digits", n |-> s.n] >>
      [] s.t = "bool" -> << [k |-> "digits", n |-> s.n] >>
      [] s.t = "str" -> << [k |-> "string", n |-> s.n] >>
      [] OTHER -> << Tok("null") >>

ScalarText(s) ==
    CASE s.t = "int" -> << [k |-> "digits", n |-> s.n] >>
      [] s.t = "float" -> << [k |-> "digits.digits", n |-> s.n] >>
      [] s.t = "bool" -> << Tok(IF s.n = 1 THEN "true" ELSE "false") >>
      [] s.t = "str" -> << [k |-> "string", n |-> s.n] >>
      [] OTHER -> << Tok("null") >>

ValueText(v) ==
    IF v.t = "dict"
    THEN <<Tok("{")>>
         \o (IF v.has THEN <<Tok("key:tcp_port"), Tok(":")>> \o ScalarText(v.port)
             ELSE << >>)
         \o <<Tok("}")>>
    ELSE IF v.t = "list"
    THEN <<Tok("["), Tok("]")>>
    ELSE ScalarText([t |-> v.t, n |-> v.n])

VariationText(variation) ==
    <<Tok("{")>>
    \o (IF variation.has_value
        THEN <<Tok("key:value"), Tok(":")>> \o ValueText(variation.value)
        ELSE << >>)
    \o <<Tok("}")>>

RECURSIVE ElementsText(_, _)
ElementsText(doc, i) ==
    IF i > Len(doc) THEN << >>
    ELSE (IF i > 1 THEN <<Tok(",")>> ELSE << >>)
         \o VariationText(doc[i]) \o ElementsText(doc, i + 1)

\* json.dumps(json_data, indent=2)
Dumps(doc) == <<Tok("[")>> \o ElementsText(doc, 1) \o <<Tok("]")>>

At(text, i) == IF i >= 1 /\ i <= Len(text) THEN text[i] ELSE Tok("EOF")
ParseFail == [ok |-> FALSE, value |-> << >>, next |-> 0, object |-> FALSE]
Parsed(v, next) == [ok |-> TRUE, value |-> v, next |-> next, object |-> FALSE]

ParseScalar(text, i) ==
    LET c == At(text, i)
    IN  CASE c.k = "digits" -> Parsed(IntS(c.n), i + 1)
          [] c.k = "digits.digits" -> Parsed(FloatS(c.n), i + 1)
          [] c.k = "true" -> Parsed(BoolS(1), i + 1)
          [] c.k = "false" -> Parsed(BoolS(0), i + 1)
          [] c.k = "string" -> Parsed(StrS(c.n), i + 1)
          [] c.k = "null" -> Parsed(NoneS, i + 1)
          [] OTHER -> ParseFail

ParseValue(text, i) ==
    LET c == At(text, i)
    IN  IF c.k = "{"
        THEN IF At(text, i + 1).k = "}"
             THEN Parsed(Dict(FALSE, NoneS), i + 2)
             ELSE IF At(text, i + 1).k = "key:tcp_port" /\ At(text, i + 2).k = ":"
             THEN LET s == ParseScalar(text, i + 3)
                  IN  IF s.ok /\ At(text, s.next).k = "}"
                      THEN Parsed(Dict(TRUE, s.value), s.next + 1)
                      ELSE ParseFail
             ELSE ParseFail
        ELSE IF c.k = "["
        THEN IF At(text, i + 1).k = "]"
             THEN Parsed(NonDict("list", 0), i + 2)
             ELSE ParseFail
        ELSE LET s == ParseScalar(text, i)
             IN  IF s.ok THEN Parsed(NonDict(s.value.t, s.value.n), s.next)
                 ELSE ParseFail

ParseVariation(text, i) ==
    IF At(text, i).k # "{"
    THEN ParseFail
    ELSE IF At(text, i + 1).k = "}"
    THEN Parsed([has_value |-> FALSE, value |-> NonDict("null", 0)], i + 2)
    ELSE IF At(text, i + 1).k = "key:value" /\ At(text, i + 2).k = ":"
    THEN LET v == ParseValue(text, i + 3)
         IN  IF v.ok /\ At(text, v.next).k = "}"
             THEN Parsed([has_value |-> TRUE, value |-> v.value], v.next + 1)
             ELSE ParseFail
    ELSE ParseFail

RECURSIVE ParseElements(_, _, _)
\* after the element e: a comma and more elements, or the closing bracket
ElementsAfter(text, e, acc) ==
    IF ~e.ok THEN ParseFail
    ELSE IF At(text, e.next).k = ","
    THEN ParseElements(text, e.next + 1, Append(acc, e.value))
    ELSE IF At(text, e.next).k = "]"
    THEN Parsed(Append(acc, e.value), e.next + 1)
    ELSE ParseFail

ParseElements(text, i, acc) ==
    CHOOSE r \in {ElementsAfter(text, e, acc) : e \in {ParseVariation(text, i)}} : TRUE

\* the whole text must have been consumed
WholeText(text, r) == IF r.ok /\ r.next = Len(text) + 1 THEN r ELSE ParseFail

ParseDocument(text) ==
    IF At(text, 1).k = "{"
    THEN \* an object at the top level: the empty one, {}
         CHOOSE d \in {WholeText(text, r) :
                        r \in {IF At(text, 2).k = "}"
                               THEN [ok |-> TRUE, value |-> << >>, next |-> 3,
                                     object |-> TRUE]
                               ELSE ParseFail}} : TRUE
    ELSE IF At(text, 1).k # "["
    THEN ParseFail
    ELSE CHOOSE d \in {WholeText(text, r) :
                        r \in {IF At(text, 2).k = "]" THEN Parsed(<< >>, 3)
                               ELSE ParseElements(text, 2, << >>)}} : TRUE

\* json.load(temp_file): the document, or not ok for JSONDecodeError
Loads(text) == CHOOSE d \in {ParseDocument(t) : t \in {text}} : TRUE

(***************************************************************************)
(* edit_json_in_editor.  The file system may fail the write, the launch of  *)
(* the editor or the read; the user leaves the file unchanged or types a    *)
(* document, possibly damaged so that it is no valid JSON.                  *)
(***************************************************************************)
Some(doc) == [is_none |-> FALSE, doc |-> doc, object |-> FALSE]
NoneDoc == [is_none |-> TRUE, doc |-> << >>, object |-> FALSE]

\* variant: only None counts as no value
NotValueNoneOnly(ret) == ret.is_none

\* not x, for what json.load returned or None: None, [] and {} are false
NotValue(ret) == ret.is_none \/ Len(ret.doc) = 0

Damage(text, damage) ==
    CASE damage = "truncated" -> SubSeq(text, 1, Len(text) - 1)
      [] damage = "trailing" -> text \o <<Tok("]")>>
      [] damage = "emptied" -> << >>
      [] OTHER -> text

\* what the file holds when the editor has exited
EditorWrites(written, edit) ==
    IF edit.kind = "unchanged" THEN written
    ELSE IF edit.kind = "typed_object" THEN <<Tok("{"), Tok("}")>>
    ELSE Damage(Dumps(edit.doc), edit.damage)

InvalidJsonLine == [text |-> "Error: Invalid JSON format: ", status |-> 0]

\* return json.load(temp_file), or None with a message on JSONDecodeError
LoadResult(parsed) ==
    IF parsed.ok
    THEN [result |-> Returned([is_none |-> FALSE, doc |-> parsed.value,
                               object |-> parsed.object]),
          console |-> << >>]
    ELSE [result |-> Returned(NoneDoc), console |-> <<InvalidJsonLine>>]

\* variant: the file is read without waiting for the editor to exit
EditorBodyNoWait(written, fault, edit) ==
    IF fault = "launch_fails"
    THEN [result |-> Raised("OSError", "subprocess.call"), console |-> << >>]
    ELSE IF fault = "read_fails"
    THEN [result |-> Raised("OSError", "open"), console |-> << >>]
    ELSE CHOOSE b \in {LoadResult(parsed) : parsed \in {Loads(written)}} : TRUE

\* the try block: subprocess.call, open, json.load
EditorBody(written, fault, edit) ==
    IF fault = "launch_fails"
    THEN [result |-> Raised("OSError", "subprocess.call"), console |-> << >>]
    ELSE IF fault = "read_fails"
    THEN [result |-> Raised("OSError", "open"), console |-> << >>]
    ELSE CHOOSE b \in {LoadResult(parsed) :
                        parsed \in {Loads(EditorWrites(written, edit))}} : TRUE

\* the finally block: os.unlink(temp_file_path), whatever the try block did
Unlinked(body) == [result |-> body.result, console |-> body.console, tmp_left |-> 0]

edit_json_in_editor(json_data, fault, edit) ==
    \* with NamedTemporaryFile(delete=False): the file exists from here on
    IF fault = "write_fails"
    THEN [result |-> Raised("OSError", "temp_file.write"), console |-> << >>,
          tmp_left |-> 1]
    ELSE \* try: ... finally: os.unlink(temp_file_path)
         CHOOSE o \in {Unlinked(body) :
                        body \in {EditorBody(Dumps(json_data), fault, edit)}} : TRUE

(***************************************************************************)
(* Menus.  An answer to input() is [k, n, s]: k = "q" or "Q", "int" (the    *)
(* text of the integer n), "text" (other text s) or "empty".  A script is   *)
(* the sequence of answers the user gives; when it runs out, stdin is at    *)
(* its end and input() raises EOFError.                                     *)
(***************************************************************************)
In(k, n, s) == [k |-> k, n |-> n, s |-> s]

Line(text) == [text |-> text, status |-> 0]

Selection(kind, ret, used, lines) ==
    [kind |-> kind, ret |-> ret, used |-> used, lines |-> lines]

\* the while True loop of select_from_list
RECURSIVE Prompt(_, _, _, _)
Prompt(items, inputs, i, out) ==
    LET asked == out \o <<Line("Enter number (or 'q' to quit): ")>>
    IN  IF i > Len(inputs)
        THEN Selection("raise", None, Len(inputs), asked)
        ELSE IF inputs[i].k \in {"q", "Q"}
        THEN Selection("return", None, i, asked)
        ELSE IF inputs[i].k # "int"
        THEN Prompt(items, inputs, i + 1,
                    asked \o <<Line("Please enter a valid number")>>)
        ELSE IF 0 <= inputs[i].n - 1 /\ inputs[i].n - 1 < Len(items)
        THEN Selection("return", items[inputs[i].n], i, asked)
        ELSE Prompt(items, inputs, i + 1,
                    asked \o <<[text |-> "Please enter a number between 1 and ",
                                status |-> Len(items)]>>)

\* the prompt and the numbered items
\* print(prompt), then the numbered items
Listing(items) ==
    <<Line("prompt")>> \o [n \in 1..Len(items) |-> [text |-> items[n], status |-> n]]

\* variant: the empty list is prompted for like any other
select_from_list_without_empty_check(items, inputs) ==
    Prompt(items, inputs, 1, Listing(items))

select_from_list(items, inputs) ==
    IF Len(items) = 0
    THEN Selection("return", None, 0, <<Line("No items available.")>>)
    ELSE Prompt(items, inputs, 1, Listing(items))

EOFError == Raised("EOFError", "input")

\* the characters of the flag names and flag keys typed at the menu
Chars(text) ==
    CASE text = "My Flag" -> <<"M", "y", " ", "F", "l", "a", "g">>
      [] text = "tcp  GW-2" -> <<"t", "c", "p", " ", " ", "G", "W", "-", "2">>
      [] text = "f1" -> <<"f", "1">>
      [] OTHER -> << >>

\* str.lower() on one character
Lower(c) ==
    LET upper == <<"A", "B", "C", "D", "E", "F", "G", "H", "I", "J", "K", "L", "M",
                   "N", "O", "P", "Q", "R", "S", "T", "U", "V", "W", "X", "Y", "Z">>
        lower == <<"a", "b", "c", "d", "e", "f", "g", "h", "i", "j", "k", "l", "m",
                   "n", "o", "p", "q", "r", "s", "t", "u", "v", "w", "x", "y", "z">>
    IN  IF \E i \in 1..26 : upper[i] = c
        THEN lower[CHOOSE i \in 1..26 : upper[i] = c]
        ELSE c

\* flag_name.lower().replace(' ', '-')
SuggestedKey(flag_name) ==
    [i \in 1..Len(flag_name) |-> IF flag_name[i] = " " THEN "-" ELSE Lower(flag_name[i])]

\* "prod" in env_key.lower(), for the environment keys the responses use
\* variant: the key is searched as it is written
ContainsProdCaseSensitive(env_key) ==
    \E i \in 1..(Len(env_key) - 3) :
        <<env_key[i], env_key[i + 1], env_key[i + 2], env_key[i + 3]>>
            = <<"p", "r", "o", "d">>

\* "prod" in env_key.lower(), on the characters of the key
ContainsProd(env_key) ==
    \E i \in 1..(Len(env_key) - 3) :
        <<Lower(env_key[i]), Lower(env_key[i + 1]), Lower(env_key[i + 2]),
          Lower(env_key[i + 3])>> = <<"p", "r", "o", "d">>

\* an environment of the project details: whether it has a name, whether it
\* has a key, and the characters of the key
Environment(has_name, has_key, key) == [has_name |-> has_name, has_key |-> has_key, key |-> key]

\* flag_details.get('variations', [])
Variations(body) == IF body.has_variations THEN body.variations ELSE << >>

\* variant: only the first variation is looked at
HasJsonValueFirstOnly(variations) ==
    /\ Len(variations) > 0
    /\ variations[1].has_value
    /\ variations[1].value.t = "dict"

\* any variation whose value is a dict
HasJsonValue(variations) ==
    \E i \in 1..Len(variations) :
        variations[i].has_value /\ variations[i].value.t = "dict"

\* the for loop of select_flag: fetch each flag, keep those with a JSON value
RECURSIVE CheckFlags(_, _, _, _, _)
CheckFlags(pk, flags, i, details, acc) ==
    IF i > Len(flags)
    THEN acc
    ELSE LET flag == flags[i]
             d == get_feature_flag(pk, flag, pk, details[flag])
         IN  IF d.result.kind = "raise"
             THEN CheckFlags(pk, flags, i + 1, details,
                     [requests |-> acc.requests \o d.requests,
                      console |-> acc.console \o d.console
                                  \o <<[text |-> "Error checking flag ", status |-> 0]>>,
                      json_flags |-> acc.json_flags])
             ELSE CheckFlags(pk, flags, i + 1, details,
                     [requests |-> acc.requests \o d.requests,
                      console |-> acc.console \o d.console,
                      json_flags |-> IF HasJsonValue(Variations(d.result.ret))
                                     THEN Append(acc.json_flags, flag)
                                     ELSE acc.json_flags])

(***************************************************************************)
(* Inputs the actions draw from.                                            *)
(***************************************************************************)
ProjectKeyArgs == {"", "pA"}
FlagKeys == {"f1"}
Statuses == {199, 200, 299, 300, 399, 400, 599}
PageStatuses == {200, 302, 404}

\* -1: the page has no items key
ItemCounts == {-1, 0, 2}

PageBodies == PageStatuses \X ItemCounts

ChainsOfLen(n) ==
    { [i \in 1..n |->
          [status |-> f[i][1],
           has_items |-> f[i][2] >= 0,
           items |-> IF f[i][2] > 0 THEN PageItems(i, f[i][2]) ELSE << >>,
           link |-> IF i < n THEN Link("href", i + 1) ELSE Link(stop, 0)]] :
      f \in [1..n -> PageBodies],
      stop \in IF n = 1 THEN StopShapes ELSE {"empty_links", "no_href"} }

PageChains == UNION {ChainsOfLen(n) : n \in 1..MaxPages}

Var(v) == [has_value |-> TRUE, value |-> v]
NoValue == [has_value |-> FALSE, value |-> NonDict("null", 0)]

VariationSamples ==
    {Var(Dict(TRUE, IntS(443))), Var(Dict(TRUE, BoolS(1))), Var(Dict(TRUE, IntS(65536))),
     Var(Dict(TRUE, StrS(443))), Var(Dict(FALSE, NoneS)), Var(NonDict("str", 0)), NoValue}

VariationLists == UNION {[1..n -> VariationSamples] : n \in 0..MaxVariations}

\* the document a create or patch request is answered with
Doc(status) == [doc |-> status]
DocResponses == {[status |-> s, body |-> Doc(s)] : s \in Statuses}

EnvBodies ==
    {[has_environments |-> FALSE, environments |-> << >>],
     [has_environments |-> TRUE, environments |-> << >>],
     [has_environments |-> TRUE,
      environments |-> <<Environment(TRUE, TRUE, <<"p", "r", "o", "d">>),
                         Environment(TRUE, TRUE, <<"d", "e", "v">>)>>]}
EnvResponses == {[status |-> s, body |-> b] : s \in Statuses, b \in EnvBodies}

Faults == {"none", "write_fails", "launch_fails", "read_fails"}
Damages == {"none", "truncated", "trailing", "emptied"}

Port443 == Var(Dict(TRUE, IntS(443)))
Port8080 == Var(Dict(TRUE, IntS(8080)))
PortTrue == Var(Dict(TRUE, BoolS(1)))
PortText == Var(Dict(TRUE, StrS(443)))

JsonDocs == {<< >>, <<Port443>>, <<Port443, Port8080>>, <<PortText, NoValue>>}
TypedDocs == {<< >>, <<Port8080>>, <<Port443, PortText>>, <<PortTrue, Var(NonDict("str", 0))>>}

Unchanged == [kind |-> "unchanged", doc |-> << >>, damage |-> "none"]
Typed(doc, damage) == [kind |-> "typed", doc |-> doc, damage |-> damage]
EditorInputs == {Unchanged} \cup {Typed(d, g) : d \in TypedDocs, g \in Damages}

\* variations whose values cover the JSON types: objects with and without
\* keys, the empty array, strings, integers, floats, booleans and null
RoundTripSamples ==
    {Var(Dict(TRUE, p)) : p \in {IntS(443), FloatS(443), BoolS(1), StrS(443), NoneS}}
    \cup {Var(Dict(FALSE, NoneS)), Var(NonDict("list", 0)), Var(NonDict("int", 1)),
          Var(NonDict("bool", 1)), Var(NonDict("null", 0)), NoValue}
RoundTripDocs == UNION {[1..n -> RoundTripSamples] : n \in 0..MaxVariations}

\* calls of edit_json_in_editor: a value, what the file system does and what
\* the user does in the editor
EditorCalls ==
    {[json_data |-> d, fault |-> f, edit |-> e] :
        d \in JsonDocs, f \in Faults, e \in EditorInputs}
    \cup {[json_data |-> d, fault |-> "none", edit |-> Unchanged] : d \in RoundTripDocs}

\* what the server and the user may do during a workflow
WfPage(status, items) ==
    [status |-> status, has_items |-> TRUE, items |-> items, link |-> Link("no_links", 0)]
WfProjectPages ==
    {<<WfPage(200, <<"pB", "pC">>)>>, <<WfPage(200, << >>)>>, <<WfPage(404, << >>)>>}
WfFlagPages ==
    {<<WfPage(200, <<"f1", "f2">>)>>, <<WfPage(200, << >>)>>, <<WfPage(500, << >>)>>}

FlagDetail(status, has_variations, variations) ==
    [status |-> status,
     body |-> [has_variations |-> has_variations, variations |-> variations]]
WfDetails ==
    {FlagDetail(200, TRUE, <<Port443, PortText>>),
     FlagDetail(200, TRUE, <<Var(NonDict("str", 0))>>),
     FlagDetail(200, TRUE, <<NoValue, Var(Dict(FALSE, NoneS))>>),
     FlagDetail(404, FALSE, << >>)}
WfDetailsAgain == WfDetails \cup {FlagDetail(200, FALSE, << >>)}

SelectScripts ==
    {<<In("q", 0, "")>>, <<In("int", 1, "")>>, <<In("text", 0, "abc"), In("int", 2, "")>>}

WfEditorRuns ==
    {[fault |-> "none", edit |-> e] :
        e \in {Unchanged, Typed(<<Port8080>>, "none"), Typed(<<Port443, PortText>>, "none"),
               Typed(<< >>, "none"), Typed(<<Port8080>>, "truncated"),
               [kind |-> "typed_object", doc |-> << >>, damage |-> "none"]}}
    \cup {[fault |-> f, edit |-> Unchanged] : f \in Faults \ {"none"}}

Confirms ==
    {In("text", 0, "y"), In("text", 0, "Y"), In("text", 0, "n"), In("text", 0, "yes"),
     In("empty", 0, "")}
WfStatuses == {200, 400}

\* the variations file of the create subcommand: absent, or holding a text
FileWith(text) == [exists |-> TRUE, text |-> text]
VariationFiles ==
    {[exists |-> FALSE, text |-> << >>], FileWith(Dumps(<<Port443, Port8080>>)), FileWith(Dumps(<<PortText>>)),
     FileWith(Dumps(<<NoValue>>)), FileWith(Damage(Dumps(<<Port443>>), "truncated"))}

\* an --env-rules entry "environment:path.json": the text before the colon,
\* whether it has the colon, what the rules file holds, and the status of
\* the PATCH
EnvRule(env, colon, file, status) ==
    [env |-> env, colon |-> colon, file |-> file, status |-> status]
EnvRuleLists ==
    {<< >>}
    \cup {<<r>> : r \in {EnvRule("staging", FALSE, "valid", 200),
                         EnvRule("staging", TRUE, "absent", 200),
                         EnvRule("staging", TRUE, "invalid", 200),
                         EnvRule("staging", TRUE, "valid", 200),
                         EnvRule("staging", TRUE, "valid", 404)}}
    \cup {<<EnvRule("staging", TRUE, "valid", 404),
            EnvRule("production", TRUE, "valid", 200)>>,
          <<EnvRule("test", TRUE, "valid", 200), EnvRule("staging", FALSE, "valid", 200),
            EnvRule("production", TRUE, "absent", 200),
            EnvRule("dev", TRUE, "valid", 200)>>,
          <<EnvRule("staging", TRUE, "valid", 200),
            EnvRule("staging", TRUE, "valid", 200)>>}

WfEnvResponses ==
    {[status |-> 200, body |-> [has_environments |-> TRUE, environments |-> envs]] :
        envs \in {<<Environment(TRUE, TRUE, <<"p", "r", "o", "d">>),
                    Environment(TRUE, TRUE, <<"d", "e", "v">>)>>,
                  <<Environment(FALSE, TRUE, <<"P", "r", "o", "d", "-", "E", "U">>),
                    Environment(TRUE, FALSE, << >>),
                    Environment(TRUE, TRUE, <<"n", "o", "n", "P", "R", "O", "D">>)>>,
                  <<Environment(FALSE, FALSE, << >>),
                    Environment(TRUE, TRUE, <<"p", "r", "o", "-", "d">>)>>}}
    \cup
    {[status |-> 200, body |-> [has_environments |-> FALSE, environments |-> << >>]],
     [status |-> 404, body |-> [has_environments |-> FALSE, environments |-> << >>]]}

\* what the server answers and the user does during validate_flags_workflow
WfValidateDetails ==
    {FlagDetail(200, TRUE, <<Port443, Port8080>>), FlagDetail(200, TRUE, <<Port443, PortText>>),
     FlagDetail(200, TRUE, <<PortTrue>>), FlagDetail(404, FALSE, << >>)}

\* the fixing of one invalid flag: what the user leaves in the editor, the
\* answer to the confirmation and the status of the PATCH
FixRun(edit, confirm, status) == [edit |-> edit, confirm |-> confirm, status |-> status]
FixRuns ==
    {FixRun(e, In("text", 0, "n"), 0) : e \in {Unchanged, Typed(<<Port8080>>, "none")}}
    \cup {FixRun(e, In("text", 0, "y"), st) :
             e \in {Unchanged, Typed(<<Port8080>>, "none")}, st \in WfStatuses}
    \cup {FixRun(e, In("empty", 0, ""), 0) :
             e \in {Typed(<< >>, "none"), Typed(<<Port8080>>, "truncated")}}

\* command lines argparse accepts: the options and the subcommand (None when
\* an option or the subcommand is not given)
Argv(api_key, pk, command, fix, flag_key, flag_name, variations, legacy) ==
    [api_key |-> api_key, project_key |-> pk, command |-> command, fix |-> fix,
     flag_key |-> flag_key, flag_name |-> flag_name, variations |-> variations,
     create_flag_key |-> legacy[1], create_flag_name |-> legacy[2],
     create_variations |-> legacy[3]]

\* os.environ and the .env file: the two variables main reads
Env(api_key, pk) == [LD_API_KEY |-> api_key, LD_PROJECT_KEY |-> pk]

\* runs of main: command line, process environment and .env file.  The first
\* group varies where the API key comes from, the second where the project
\* key comes from, the third the subcommand and the legacy arguments.
CliRuns ==
    LET none == <<None, None, None>>
        create(a, p) == Argv(a, p, "create", FALSE, "k1", "Name 1", "v.json", none)
        validate(a, p, fix) == Argv(a, p, "validate", fix, None, None, None, none)
        other(command, p, legacy) ==
            Argv("cliK", p, command, FALSE, None, None, None, legacy)
        run(argv, env, dotenv) == [argv |-> argv, env |-> env, dotenv |-> dotenv]
    IN  {run(create(a, "pA"), Env(e, None), Env(d, None)) :
            a \in {None, "", "cliK"}, e \in {None, "", "envK"}, d \in {None, "dotK"}}
        \cup {run(validate("cliK", a, FALSE), Env(None, e), Env(None, d)) :
                a \in {None, "", "pA"}, e \in {None, "", "pE"}, d \in {None, "pD"}}
        \cup {run(create("cliK", a), Env(None, e), Env(None, None)) :
                a \in {None, "pA"}, e \in {None, "pE"}}
        \cup {run(argv, Env(None, None), Env(None, None)) :
                argv \in {validate("cliK", "pA", TRUE), validate("cliK", "pA", FALSE),
                          other("update", "pA", none), other("update", None, none),
                          create("cliK", "pA")}
                         \cup {other(None, "pA", l) :
                                l \in {none, <<"k2", None, None>>, <<"k2", "Name 2", None>>,
                                       <<None, "Name 2", "w.json">>,
                                       <<"", "Name 2", "w.json">>,
                                       <<"k2", "Name 2", "w.json">>}}}

\* the answers typed at the prompt of select_from_list
MaxAnswers == 3
AnswerScripts ==
    LET answers == {In("q", 0, ""), In("Q", 0, ""), In("int", 0 - 1, ""), In("int", 0, ""),
                    In("int", 1, ""), In("int", 3, ""), In("int", 4, ""),
                    In("text", 0, "abc"), In("empty", 0, "")}
    IN  UNION {[1..n -> answers] : n \in 0..MaxAnswers}

\* answers to the prompts of interactive_workflow
MenuScripts ==
    {<<In("q", 0, "")>>,
     <<In("int", 1, ""), In("text", 0, "My Flag"), In("empty", 0, "")>>,
     <<In("int", 1, ""), In("text", 0, "tcp  GW-2"), In("empty", 0, "")>>,
     <<In("int", 1, ""), In("text", 0, "My Flag"), In("text", 0, "f1")>>,
     <<In("int", 1, ""), In("empty", 0, ""), In("int", 2, "")>>,
     <<In("text", 0, "abc"), In("int", 2, "")>>,
     <<In("int", 3, ""), In("Q", 0, "")>>,
     <<In("int", 3, ""), In("text", 0, "y")>>,
     <<In("int", 1, "")>>}

(***************************************************************************)
(* The state machine.                                                       *)
(***************************************************************************)
NoResult == Returned(None)
NoCli == [ran |-> FALSE]

\* variant: the Authorization header is left empty
LaunchDarklyClientWithoutKey(api_key) ==
    [api_key |-> api_key, base_url |-> "https://app.launchdarkly.com/api/v2",
     headers |-> [Authorization |-> "", ContentType |-> "application/json"]]

\* __init__: the fields of the client other than project_key
LaunchDarklyClient(api_key) ==
    [api_key |-> api_key, base_url |-> "https://app.launchdarkly.com/api/v2",
     headers |-> [Authorization |-> api_key, ContentType |-> "application/json"]]

Init ==
    /\ project_key \in {"", "pB"}
    /\ tmp_left = 0
    /\ pc = "idle"
    /\ op = "none"
    /\ arg = << >>
    /\ requests = << >>
    /\ console = << >>
    /\ result = NoResult
    /\ cli = NoCli
    /\ client = LaunchDarklyClient("cliK")

\* no request was sent, so no response was received
NoResponse == [status |-> 0, body |-> Doc(0)]

\* a client method ran: record what it was given and what it did
Ran(name, inputs, o) ==
    /\ pc' = "done"
    /\ op' = name
    /\ arg' = IF "response" \in DOMAIN inputs /\ o.requests = << >>
              THEN [inputs EXCEPT !.response = NoResponse]
              ELSE inputs
    /\ requests' = o.requests
    /\ console' = o.console
    /\ result' = o.result

ValidateTcpPortJson ==
    /\ pc = "idle"
    /\ \E json_obj \in JsonValues :
        /\ Ran("validate_tcp_port_json", [json_obj |-> json_obj],
               Outcome(<< >>, << >>, validate_tcp_port_json(json_obj)))
        /\ UNCHANGED <<project_key, tmp_left, cli, client>>

GetProjects ==
    /\ pc = "idle"
    /\ \E pages \in PageChains :
        /\ Ran("get_projects", [pages |-> pages], get_projects(project_key, pages))
        /\ UNCHANGED <<project_key, tmp_left, cli, client>>

GetFeatureFlags ==
    /\ pc = "idle"
    /\ \E pk_arg \in ProjectKeyArgs, pages \in PageChains :
        /\ Ran("get_feature_flags", [project_key |-> pk_arg, pages |-> pages],
               get_feature_flags(project_key, pk_arg, pages))
        /\ UNCHANGED <<project_key, tmp_left, cli, client>>

GetEnvironments ==
    /\ pc = "idle"
    /\ \E pk_arg \in ProjectKeyArgs, response \in EnvResponses :
        /\ Ran("get_environments", [project_key |-> pk_arg, response |-> response],
               get_environments(project_key, pk_arg, response))
        /\ UNCHANGED <<project_key, tmp_left, cli, client>>

GetFeatureFlag ==
    /\ pc = "idle"
    /\ \E pk_arg \in ProjectKeyArgs, flag_key \in FlagKeys, response \in DocResponses :
        /\ Ran("get_feature_flag",
               [project_key |-> pk_arg, flag_key |-> flag_key, response |-> response],
               get_feature_flag(project_key, flag_key, pk_arg, response))
        /\ UNCHANGED <<project_key, tmp_left, cli, client>>

CreateFeatureFlag ==
    /\ pc = "idle"
    /\ \E pk_arg \in ProjectKeyArgs, flag_key \in FlagKeys,
       variations \in VariationLists, response \in DocResponses :
        /\ Ran("create_feature_flag",
               [project_key |-> pk_arg, flag_key |-> flag_key, flag_name |-> "Flag",
                variations |-> variations, response |-> response],
               create_feature_flag(project_key, flag_key, "Flag", variations, pk_arg,
                                   response))
        /\ UNCHANGED <<project_key, tmp_left, cli, client>>

UpdateFlagVariations ==
    /\ pc = "idle"
    /\ \E pk_arg \in ProjectKeyArgs, flag_key \in FlagKeys,
       variations \in VariationLists, response \in DocResponses :
        /\ Ran("update_flag_variations",
               [project_key |-> pk_arg, flag_key |-> flag_key,
                variations |-> variations, response |-> response],
               update_flag_variations(project_key, flag_key, variations, pk_arg, response))
        /\ UNCHANGED <<project_key, tmp_left, cli, client>>

ConfigureEnvironmentTargeting ==
    /\ pc = "idle"
    /\ \E pk_arg \in ProjectKeyArgs, flag_key \in FlagKeys,
       environment_key \in {"production", "dev"}, response \in DocResponses :
        /\ Ran("configure_environment_targeting",
               [project_key |-> pk_arg, flag_key |-> flag_key,
                environment_key |-> environment_key, response |-> response],
               configure_environment_targeting(project_key, flag_key, environment_key,
                                               <<"rule">>, pk_arg, response))
        /\ UNCHANGED <<project_key, tmp_left, cli, client>>

EditJsonInEditor ==
    /\ pc = "idle"
    /\ \E call \in EditorCalls :
        \E o \in {edit_json_in_editor(call.json_data, call.fault, call.edit)} :
            /\ pc' = "done"
            /\ op' = "edit_json_in_editor"
            /\ arg' = [call EXCEPT !.edit = IF call.fault \in {"write_fails", "launch_fails"}
                                            THEN Unchanged ELSE call.edit]
            /\ requests' = << >>
            /\ console' = o.console
            /\ result' = o.result
            /\ tmp_left' = o.tmp_left
            /\ UNCHANGED <<project_key, cli, client>>

\* a workflow ended
Finish(name, inputs, reqs, lines, res, pk, left) ==
    /\ pc' = "done"
    /\ op' = name
    /\ arg' = inputs
    /\ requests' = reqs
    /\ console' = lines
    /\ result' = res
    /\ project_key' = pk
    /\ tmp_left' = left

\* update_flag_variations_workflow from the edit on (lines 219-245)
EditAndUpdate(name, inputs, reqs, lines, pk, flag_key, variations) ==
    \E run \in WfEditorRuns :
    \E e \in {edit_json_in_editor(variations, run.fault, run.edit)} :
    \E in1 \in {inputs @@ ("editor" :> run)} :
    \E lines1 \in {lines \o e.console} :
        IF e.result.kind = "raise"
        THEN Finish(name, in1, reqs, lines1, e.result, pk, e.tmp_left)
        ELSE IF NotValue(e.result.ret)
        THEN Finish(name, in1, reqs,
                    lines1 \o <<[text |-> "Editing cancelled or invalid JSON.",
                                 status |-> 0]>>,
                    Returned(FALSE), pk, 0)
        ELSE \E confirm \in Confirms :
             \E in2 \in {in1 @@ ("confirm" :> confirm)} :
                IF confirm.s \notin {"y", "Y"}
                THEN Finish(name, in2, reqs, lines1, Returned(FALSE), pk, 0)
                ELSE \E status \in WfStatuses :
                     \E u \in {update_flag_variations(pk, flag_key, e.result.ret.doc, pk,
                                    [status |-> status, body |-> Doc(status)])} :
                     \E in3 \in {in2 @@ ("update_status" :>
                                     IF u.requests = << >> THEN 0 ELSE status)} :
                        IF u.result.kind = "raise"
                        THEN Finish(name, in3, reqs \o u.requests,
                                lines1 \o u.console
                                \o <<[text |-> "Error updating flag variations: ",
                                      status |-> 0]>>,
                                Returned(FALSE), pk, 0)
                        ELSE Finish(name, in3, reqs \o u.requests,
                                lines1 \o u.console, Returned(TRUE), pk, 0)

\* update_flag_variations_workflow from line 195 on: client.project_key is set,
\* then select_flag, the flag's details, the edit and the update
UpdateFrom(name, inputs, reqs, lines, pk) ==
    \E pages \in WfFlagPages :
    \E l \in {get_feature_flags(pk, pk, pages)} :
    \E in1 \in {inputs @@ ("flag_pages" :> pages)} :
    \E reqs1 \in {reqs \o l.requests} :
    \E lines1 \in {lines \o l.console} :
        IF l.result.kind = "raise"
        THEN Finish(name, in1, reqs1, lines1, l.result, pk, 0)
        ELSE \E details \in [{l.result.ret[i] : i \in 1..Len(l.result.ret)} -> WfDetails] :
             \E c \in {CheckFlags(pk, l.result.ret, 1, details,
                           [requests |-> reqs1, console |-> lines1,
                            json_flags |-> << >>])} :
             \E in2 \in {in1 @@ ("details" :> details)} :
             \E script \in IF c.json_flags = << >> THEN {<< >>} ELSE SelectScripts :
             \E sel \in {IF c.json_flags = << >>
                         THEN Selection("return", None, 0,
                                        <<Line("No JSON feature flags found in project ")>>)
                         ELSE select_from_list(c.json_flags, script)} :
             \E in3 \in {in2 @@ ("flag_script" :> script)} :
                IF sel.kind = "raise"
                THEN Finish(name, in3, c.requests, c.console \o sel.lines, EOFError, pk, 0)
                ELSE IF sel.ret = None
                THEN Finish(name, in3, c.requests, c.console \o sel.lines,
                            Returned(FALSE), pk, 0)
                ELSE \E again \in WfDetailsAgain :
                     \E g \in {get_feature_flag(pk, sel.ret, pk, again)} :
                     \E in4 \in {in3 @@ ("details_again" :> again)} :
                     \E reqs4 \in {c.requests \o g.requests} :
                     \E lines4 \in {c.console \o sel.lines \o g.console} :
                        IF g.result.kind = "raise"
                        THEN Finish(name, in4, reqs4,
                                lines4 \o <<[text |-> "Error retrieving flag details: ",
                                             status |-> 0]>>,
                                Returned(FALSE), pk, 0)
                        ELSE IF Variations(g.result.ret) = << >>
                        THEN Finish(name, in4, reqs4,
                                lines4 \o <<[text |-> "No variations found for flag",
                                             status |-> 0]>>,
                                Returned(FALSE), pk, 0)
                        ELSE EditAndUpdate(name, in4, reqs4, lines4, pk, sel.ret,
                                           Variations(g.result.ret))

\* the for loop over env_rules of create_flag_workflow: every failure is
\* printed and the loop goes on
RECURSIVE ProcessEnvRules(_, _, _, _, _, _)
AfterEnvRule(self_pk, pk_arg, flag_key, env_rules, i, acc, done) ==
    ProcessEnvRules(self_pk, pk_arg, flag_key, env_rules, i + 1,
                    [requests |-> acc.requests \o done.requests,
                     console |-> acc.console \o done.console])

\* variant: every targeting request goes to the environment production
EnvRuleOutcomeOneEnvironment(self_pk, pk_arg, flag_key, rule) ==
    IF ~rule.colon \/ rule.file = "invalid"
    THEN [requests |-> << >>,
          console |-> <<Line("Invalid format for environment rules: "),
                        Line("Format should be 'environment:path.json'")>>]
    ELSE IF rule.file = "absent"
    THEN [requests |-> << >>, console |-> <<Line("Error configuring environment ")>>]
    ELSE CHOOSE r \in
            {[requests |-> t.requests,
              console |-> t.console \o (IF t.result.kind = "raise"
                                         THEN <<Line("Error configuring environment ")>>
                                         ELSE << >>)] :
             t \in {configure_environment_targeting(self_pk, flag_key, "production",
                        <<"rule">>, pk_arg,
                        [status |-> rule.status, body |-> Doc(rule.status)])}} : TRUE

EnvRuleOutcome(self_pk, pk_arg, flag_key, rule) ==
    IF ~rule.colon \/ rule.file = "invalid"
    THEN \* ValueError from the unpacking, JSONDecodeError from json.load
         [requests |-> << >>,
          console |-> <<Line("Invalid format for environment rules: "),
                        Line("Format should be 'environment:path.json'")>>]
    ELSE IF rule.file = "absent"
    THEN [requests |-> << >>, console |-> <<Line("Error configuring environment ")>>]
    ELSE CHOOSE r \in
            {[requests |-> t.requests,
              console |-> t.console \o (IF t.result.kind = "raise"
                                         THEN <<Line("Error configuring environment ")>>
                                         ELSE << >>)] :
             t \in {configure_environment_targeting(self_pk, flag_key, rule.env,
                        <<"rule">>, pk_arg,
                        [status |-> rule.status, body |-> Doc(rule.status)])}} : TRUE

ProcessEnvRules(self_pk, pk_arg, flag_key, env_rules, i, acc) ==
    IF i > Len(env_rules)
    THEN acc
    ELSE CHOOSE r \in
            {AfterEnvRule(self_pk, pk_arg, flag_key, env_rules, i, a, done) :
             a \in {acc},
             done \in {EnvRuleOutcome(self_pk, pk_arg, flag_key, env_rules[i])}} : TRUE

\* create_flag_workflow from the loading of the variations file on
CreateLoaded(name, inputs, reqs, lines, self_pk, pk_arg, flag_key, flag_name, file, env_rules, left) ==
    \E parsed \in {IF file.exists THEN Loads(file.text) ELSE ParseFail} :
        IF ~parsed.ok
        THEN Finish(name, inputs, reqs,
                    lines \o <<Line("Error loading variations from file: ")>>,
                    Returned(FALSE), self_pk, left)
        ELSE \E status \in WfStatuses :
             \E c \in {create_feature_flag(self_pk, flag_key, flag_name, parsed.value,
                            pk_arg, [status |-> status, body |-> Doc(status)])} :
             \E in1 \in {inputs @@ ("create_status" :>
                             IF c.requests = << >> THEN 0 ELSE status)} :
                IF c.result.kind = "raise"
                THEN Finish(name, in1, reqs \o c.requests,
                            lines \o c.console
                            \o <<Line("Error creating feature flag (workflow): ")>>,
                            Returned(FALSE), self_pk, left)
                ELSE \E p \in {ProcessEnvRules(self_pk, pk_arg, flag_key, env_rules, 1,
                                    [requests |-> reqs \o c.requests,
                                     console |-> lines \o c.console])} :
                        Finish(name, in1, p.requests,
                               p.console \o <<Line("Feature flag setup complete")>>,
                               Returned(TRUE), self_pk, left)

\* create_flag_workflow once the project key is settled; inputs holds the
\* arguments flag_key, flag_name and env_rules (<< >> for None)
CreateFromFile(name, inputs, reqs, lines, self_pk, pk_arg) ==
    \E file \in VariationFiles :
        CreateLoaded(name, inputs @@ ("variations_file" :> file), reqs, lines, self_pk,
                     pk_arg, inputs.flag_key, inputs.flag_name, file, inputs.env_rules, 0)

\* variant: the loop prints nothing for an answer it does not know
MenuChoiceSilent(kind, name, key, lines, used) ==
    [kind |-> kind, name |-> name, key |-> key, lines |-> << >>, used |-> used]

\* what the menu loop ended with, what it printed, how many inputs it read
MenuChoice(kind, name, key, lines, used) ==
    [kind |-> kind, name |-> name, key |-> key, lines |-> lines, used |-> used]

\* the while True loop of interactive_workflow up to the point where a flag
\* is to be created or updated
RECURSIVE Menu(_, _, _)
Menu(inputs, i, out) ==
    IF i > Len(inputs)
    THEN MenuChoice("raise", "", "", out, Len(inputs))
    ELSE IF inputs[i].k \in {"q", "Q"}
    THEN MenuChoice("quit", "", "", out, i)
    ELSE IF inputs[i].k = "int" /\ inputs[i].n = 1
    THEN IF i + 1 > Len(inputs)
         THEN MenuChoice("raise", "", "", out, Len(inputs))
         ELSE IF inputs[i + 1].k = "empty"
         THEN Menu(inputs, i + 2, out \o <<Line("Flag name cannot be empty.")>>)
         ELSE IF i + 2 > Len(inputs)
         THEN MenuChoice("raise", "", "", out, Len(inputs))
         ELSE MenuChoice("create", inputs[i + 1].s,
                         IF inputs[i + 2].k = "empty"
                         THEN SuggestedKey(Chars(inputs[i + 1].s))
                         ELSE Chars(inputs[i + 2].s),
                         out, i + 2)
    ELSE IF inputs[i].k = "int" /\ inputs[i].n = 2
    THEN MenuChoice("update", "", "", out, i)
    ELSE Menu(inputs, i + 1, out \o <<Line("Please enter 1 or 2")>>)

DefaultTemplate == <<Port443, Port8080>>

\* one variation per environment, port 443 for keys containing "prod"; an
\* environment without key counts as env-1, env-2, ...
TemplateFor(environments) ==
    LET digits == <<"1", "2", "3", "4", "5", "6", "7", "8", "9">>
        env_key(i) == IF environments[i].has_key THEN environments[i].key
                      ELSE <<"e", "n", "v", "-", digits[i]>>
    IN  IF environments = << >>
        THEN DefaultTemplate
        ELSE [i \in 1..Len(environments) |->
                Var(Dict(TRUE, IntS(IF ContainsProd(env_key(i)) THEN 443 ELSE 8080)))]

\* variant: the finally block does not remove the file
UnlinkVariationsFileSkipped(files) == files

\* os.unlink(variations_file) in the finally block of interactive_workflow
UnlinkVariationsFile(files) == files - 1

\* choice 1 of interactive_workflow: template, editor, temporary variations
\* file, create_flag_workflow, and the file is unlinked in the finally block
InteractiveCreate(name, inputs, reqs, lines, pk, flag_key, flag_name) ==
    \E response \in WfEnvResponses :
    \E g \in {get_environments(pk, pk, response)} :
    \E template \in {IF g.result.kind = "raise" THEN DefaultTemplate
                      ELSE TemplateFor(g.result.ret)} :
    \E lines1 \in {lines \o g.console
                    \o (IF g.result.kind = "raise"
                        THEN <<Line("Error fetching environments: ")>>
                        ELSE IF g.result.ret = << >>
                        THEN <<Line("No environments found. Using default template.")>>
                        ELSE << >>)} :
    \E run \in WfEditorRuns :
    \E e \in {edit_json_in_editor(template, run.fault, run.edit)} :
    \E in1 \in {inputs @@ ("environments" :> response) @@ ("template" :> template)
                  @@ ("editor" :> run)} :
        IF e.result.kind = "raise"
        THEN Finish(name, in1, reqs \o g.requests, lines1 \o e.console, e.result, pk,
                    e.tmp_left)
        ELSE IF NotValue(e.result.ret)
        THEN Finish(name, in1, reqs \o g.requests,
                    lines1 \o e.console \o <<Line("Editing cancelled or invalid JSON.")>>,
                    Returned(FALSE), pk, 0)
        ELSE \E write_ok \in BOOLEAN :
             \E in2 \in {in1 @@ ("variations_write_ok" :> write_ok)} :
                \* with NamedTemporaryFile(delete=False): the file exists from here on
                IF ~write_ok
                THEN Finish(name, in2, reqs \o g.requests, lines1 \o e.console,
                            Raised("OSError", "json.dump"), pk, 1)
                ELSE \* try: return create_flag_workflow(...) finally: os.unlink(...)
                     \E file \in {FileWith(Dumps(e.result.ret.doc))} :
                        CreateLoaded(name, in2 @@ ("variations_file" :> file),
                                     reqs \o g.requests, lines1 \o e.console, pk, pk,
                                     flag_key, flag_name, file, << >>,
                                     UnlinkVariationsFile(1))

InteractiveThen(inputs, reqs, lines, selected) ==
    \E script \in MenuScripts :
    \E m \in {Menu(script, 1, << >>)} :
    \E in1 \in {inputs @@ ("menu_script" :> script) @@ ("menu" :> m)} :
        CASE m.kind = "raise" ->
                Finish("interactive_workflow", in1, reqs, lines \o m.lines, EOFError,
                       selected, 0)
          [] m.kind = "quit" ->
                Finish("interactive_workflow", in1, reqs, lines \o m.lines,
                       Returned(FALSE), selected, 0)
          [] m.kind = "create" ->
                InteractiveCreate("interactive_workflow", in1, reqs, lines \o m.lines,
                                  selected, m.key, m.name)
          [] OTHER ->
                UpdateFrom("interactive_workflow", in1, reqs, lines \o m.lines, selected)


(***************************************************************************)
(* validate_flags_workflow(client, fix_invalid, project_key).  The listing, *)
(* the fetch of each flag and the validation of each variation's value are  *)
(* the client's methods; the order of the steps, the messages and the       *)
(* handling of failures follow the specification and the tests.             *)
(***************************************************************************)
\* the value a variation holds (None when it has none)
ValueOf(variation) == IF variation.has_value THEN variation.value ELSE NonDict("null", 0)

\* some variation of the flag fails client.validate_tcp_port_json
HasInvalidVariation(variations) ==
    \E i \in 1..Len(variations) :
        validate_tcp_port_json(ValueOf(variations[i])).kind = "raise"

\* fetch each flag once and validate its variations
RECURSIVE ValidateFlags(_, _, _, _, _)
AfterValidateFlag(pk, flags, i, details, acc, d) ==
    IF d.result.kind = "raise"
    THEN [requests |-> acc.requests \o d.requests,
          console |-> acc.console \o d.console
                      \o <<Line("Error retrieving flag details (validate): ")>>,
          invalid |-> acc.invalid, failed |-> TRUE]
    ELSE ValidateFlags(pk, flags, i + 1, details,
            [requests |-> acc.requests \o d.requests,
             console |-> acc.console \o d.console,
             invalid |-> IF HasInvalidVariation(Variations(d.result.ret))
                         THEN Append(acc.invalid, flags[i]) ELSE acc.invalid,
             failed |-> FALSE])

ValidateFlags(pk, flags, i, details, acc) ==
    IF i > Len(flags)
    THEN acc
    ELSE CHOOSE r \in
            {AfterValidateFlag(pk, flags, i, details, a, d) :
             a \in {acc},
             d \in {get_feature_flag(pk, flags[i], pk, details[flags[i]])}} : TRUE

\* the fixing of one invalid flag: editor, confirmation, update
FixFlag(pk, flag_key, variations, run) ==
    CHOOSE r \in
        {IF e.result.kind = "raise" \/ e.result.ret.is_none \/ e.result.ret.doc = << >>
         THEN [requests |-> << >>,
               console |-> e.console \o <<Line("Editing cancelled or invalid JSON.")>>,
               fixed |-> FALSE]
         ELSE IF run.confirm.s \notin {"y", "Y"}
         THEN [requests |-> << >>, console |-> e.console, fixed |-> FALSE]
         ELSE CHOOSE f \in
                {[requests |-> u.requests,
                  console |-> e.console \o u.console
                              \o <<Line(IF u.result.kind = "raise"
                                        THEN "Error updating flag variations: "
                                        ELSE "Successfully updated variations for flag")>>,
                  fixed |-> u.result.kind # "raise"] :
                 u \in {update_flag_variations(pk, flag_key, e.result.ret.doc, pk,
                            [status |-> run.status, body |-> Doc(run.status)])}} : TRUE :
         e \in {edit_json_in_editor(variations, "none", run.edit)}} : TRUE

RECURSIVE FixFlags(_, _, _, _, _, _)
AfterFixFlag(pk, invalid, i, details, fixes, acc, f) ==
    FixFlags(pk, invalid, i + 1, details, fixes,
             [requests |-> acc.requests \o f.requests,
              console |-> acc.console \o f.console,
              all_fixed |-> acc.all_fixed /\ f.fixed])

FixFlags(pk, invalid, i, details, fixes, acc) ==
    IF i > Len(invalid)
    THEN acc
    ELSE CHOOSE r \in
            {AfterFixFlag(pk, invalid, i, details, fixes, a, f) :
             a \in {acc},
             f \in {FixFlag(pk, invalid[i], Variations(details[invalid[i]].body),
                            fixes[invalid[i]])}} : TRUE

ValidateFrom(name, inputs, reqs, lines, self_pk, pk_arg, fix_invalid) ==
    \E pk \in {ResolveProjectKey(pk_arg, self_pk)} :
    \E pages \in WfFlagPages :
    \E l \in {get_feature_flags(self_pk, pk_arg, pages)} :
    \E in1 \in {inputs @@ ("fix_invalid" :> fix_invalid)
                  @@ ("flag_pages" :> IF l.requests = << >> THEN << >> ELSE pages)} :
        IF l.result.kind = "raise"
        THEN Finish(name, in1, reqs \o l.requests,
                    lines \o l.console \o <<Line("Error listing feature flags: ")>>,
                    Returned(FALSE), self_pk, 0)
        ELSE \E details \in [{l.result.ret[i] : i \in 1..Len(l.result.ret)}
                               -> WfValidateDetails] :
             \E v \in {ValidateFlags(pk, l.result.ret, 1, details,
                           [requests |-> reqs \o l.requests,
                            console |-> lines \o l.console,
                            invalid |-> << >>, failed |-> FALSE])} :
             \E in2 \in {in1 @@ ("details" :> details)} :
                IF v.failed
                THEN Finish(name, in2, v.requests, v.console, Returned(FALSE), self_pk, 0)
                ELSE IF v.invalid = << >>
                THEN Finish(name, in2, v.requests,
                            v.console \o <<Line("All JSON feature flags are valid!")>>,
                            Returned(TRUE), self_pk, 0)
                ELSE IF ~fix_invalid
                THEN Finish(name, in2, v.requests,
                            v.console
                            \o <<[text |-> "Found invalid JSON feature flags: ",
                                  status |-> Len(v.invalid)],
                                 Line("Run with --fix to fix invalid flags.")>>,
                            Returned(FALSE), self_pk, 0)
                ELSE \E fixes \in [{v.invalid[i] : i \in 1..Len(v.invalid)} -> FixRuns] :
                     \E f \in {FixFlags(pk, v.invalid, 1, details, fixes,
                                   [requests |-> v.requests,
                                    console |-> v.console
                                      \o <<[text |-> "Found invalid JSON feature flags: ",
                                            status |-> Len(v.invalid)],
                                           Line("Fixing invalid flags...")>>,
                                    all_fixed |-> TRUE])} :
                        Finish(name, in2 @@ ("fixes" :> fixes), f.requests, f.console,
                               Returned(f.all_fixed), self_pk, 0)

ValidateFlagsWorkflow ==
    /\ pc = "idle"
    /\ \E pk_arg \in ProjectKeyArgs, fix_invalid \in BOOLEAN :
        ValidateFrom("validate_flags_workflow", [project_key |-> pk_arg], << >>, << >>,
                     project_key, pk_arg, fix_invalid)
    /\ UNCHANGED <<cli, client>>

\* what each workflow does once select_project has returned a key
AfterSelectProject(name, inputs, reqs, lines, selected) ==
    CASE name = "update_flag_variations_workflow" ->
            UpdateFrom(name, inputs, reqs, lines, selected)
      [] name = "create_flag_workflow" ->
            \* client.project_key = project_key
            CreateFromFile(name, inputs, reqs, lines, selected, selected)
      [] OTHER -> InteractiveThen(inputs, reqs, lines, selected)

\* select_project, then the rest of the workflow; a cancelled selection
\* makes each of the workflows return False
SelectProject(name, inputs, self_pk) ==
    \E pages \in WfProjectPages :
    \E o \in {get_projects(self_pk, pages)} :
    \E in1 \in {inputs @@ ("project_pages" :> pages)} :
        IF o.result.kind = "raise"
        THEN Finish(name, in1, o.requests, o.console, o.result, self_pk, 0)
        ELSE \E script \in IF o.result.ret = << >> THEN {<< >>} ELSE SelectScripts :
             \E sel \in {select_from_list(o.result.ret, script)} :
             \E in2 \in {in1 @@ ("project_script" :> script)} :
                IF sel.kind = "raise"
                THEN Finish(name, in2, o.requests, o.console \o sel.lines, EOFError,
                            self_pk, 0)
                ELSE IF sel.ret = None
                THEN Finish(name, in2, o.requests, o.console \o sel.lines,
                            Returned(FALSE), self_pk, 0)
                ELSE AfterSelectProject(name, in2, o.requests, o.console \o sel.lines,
                                        sel.ret)

\* select_from_list(items, prompt) with the answers of a script
SelectFromList ==
    /\ pc = "idle"
    /\ \E items \in {<< >>, <<"a">>, <<"a", "b", "c">>}, inputs \in AnswerScripts :
       \E sel \in {select_from_list(items, inputs)} :
          /\ pc' = "done"
          /\ op' = "select_from_list"
          /\ arg' = [items |-> items, inputs |-> inputs]
          /\ requests' = << >>
          /\ console' = sel.lines
          /\ result' = IF sel.kind = "raise" THEN EOFError ELSE Returned(sel.ret)
          /\ UNCHANGED <<project_key, tmp_left, cli, client>>

UpdateFlagVariationsWorkflow ==
    /\ pc = "idle"
    /\ \E pk_arg \in ProjectKeyArgs :
        IF pk_arg = ""
        THEN SelectProject("update_flag_variations_workflow", [project_key |-> pk_arg],
                           project_key)
        ELSE UpdateFrom("update_flag_variations_workflow", [project_key |-> pk_arg],
                        << >>, << >>, pk_arg)
    /\ UNCHANGED <<cli, client>>

CreateFlagWorkflow ==
    /\ pc = "idle"
    /\ \E pk_arg \in ProjectKeyArgs, env_rules \in EnvRuleLists :
        \E inputs \in {[project_key |-> pk_arg, flag_key |-> "f1", flag_name |-> "Flag",
                         env_rules |-> env_rules]} :
            IF pk_arg = "" /\ project_key = ""
            THEN SelectProject("create_flag_workflow", inputs, project_key)
            ELSE CreateFromFile("create_flag_workflow", inputs, << >>, << >>,
                                project_key, pk_arg)
    /\ UNCHANGED <<cli, client>>

InteractiveWorkflow ==
    /\ pc = "idle"
    /\ SelectProject("interactive_workflow", [project_key |-> ""], project_key)
    /\ UNCHANGED <<cli, client>>

(***************************************************************************)
(* main of cli.py: the keys, the client, the dispatch and the exit code.    *)
(***************************************************************************)
\* variant: only None is false
TruthyUnlessNone(x) == x # None

\* truth value of a string or None
Truthy(x) == x \notin {None, ""}

\* variant: the second operand is preferred
OrPrefersSecond(a, b) == IF Truthy(b) THEN b ELSE a

\* a or b
Or(a, b) == IF Truthy(a) THEN a ELSE b

\* load_dotenv(): a variable of the .env file is set unless os.environ has it
LoadDotenv(env, dotenv) ==
    [k \in {"LD_API_KEY", "LD_PROJECT_KEY"} |-> IF env[k] # None THEN env[k] ELSE dotenv[k]]

\* the project key as the model of the client holds it: "" for None
KeyOrEmpty(x) == IF Truthy(x) THEN x ELSE ""

Invocation(workflow, fix, flag_key, flag_name, variations, pk) ==
    [workflow |-> workflow, fix_invalid |-> fix, flag_key |-> flag_key,
     flag_name |-> flag_name, variations_file |-> variations, project_key |-> pk]

\* the if / elif chain of main: the workflow to call and its arguments
Dispatch(args, pk) ==
    CASE args.command = "validate" ->
            Invocation("validate_flags_workflow", args.fix, None, None, None, pk)
      [] args.command = "update" ->
            Invocation("update_flag_variations_workflow", FALSE, None, None, None, None)
      [] args.command = "create" ->
            Invocation("create_flag_workflow", FALSE, args.flag_key, args.flag_name,
                       args.variations, pk)
      [] OTHER ->
            IF /\ Truthy(args.create_flag_key)
               /\ Truthy(args.create_flag_name)
               /\ Truthy(args.create_variations)
            THEN Invocation("create_flag_workflow", FALSE, args.create_flag_key,
                            args.create_flag_name, args.create_variations, pk)
            ELSE Invocation("interactive_workflow", FALSE, None, None, None, None)

\* the call of the workflow on the client main has constructed
RunWorkflow(w, client_pk) ==
    CASE w.workflow = "validate_flags_workflow" ->
            ValidateFrom(w.workflow, [project_key |-> KeyOrEmpty(w.project_key)],
                         << >>, << >>, client_pk, KeyOrEmpty(w.project_key), w.fix_invalid)
      [] w.workflow = "update_flag_variations_workflow" ->
            SelectProject(w.workflow, [project_key |-> ""], client_pk)
      [] w.workflow = "create_flag_workflow" ->
            \E inputs \in {[project_key |-> KeyOrEmpty(w.project_key),
                             flag_key |-> w.flag_key, flag_name |-> w.flag_name,
                             variations_path |-> w.variations_file,
                             env_rules |-> << >>]} :
                IF KeyOrEmpty(w.project_key) = "" /\ client_pk = ""
                THEN SelectProject(w.workflow, inputs, client_pk)
                ELSE CreateFromFile(w.workflow, inputs, << >>, << >>, client_pk,
                                    KeyOrEmpty(w.project_key))
      [] OTHER -> SelectProject(w.workflow, [project_key |-> ""], client_pk)

\* an exception of the workflow leaves main without a return
Main ==
    /\ pc = "idle"
    /\ \E run \in CliRuns :
       \E environ \in {LoadDotenv(run.env, run.dotenv)} :
       \E api_key \in {Or(run.argv.api_key, environ["LD_API_KEY"])} :
          IF ~Truthy(api_key)
          THEN /\ pc' = "done"
               /\ op' = "main"
               /\ arg' = << >>
               /\ requests' = << >>
               /\ console' = <<Line("Error: API key is required. ")>>
               /\ result' = NoResult
               /\ cli' = [ran |-> TRUE, run |-> run, has_client |-> FALSE,
                          api_key |-> None, project_key |-> None,
                          invoked |-> << >>, exit |-> [returned |-> TRUE, code |-> 1]]
               /\ UNCHANGED <<project_key, tmp_left, client>>
          ELSE \E pk \in {Or(run.argv.project_key, environ["LD_PROJECT_KEY"])} :
               \E w \in {Dispatch(run.argv, pk)} :
                  /\ client' = LaunchDarklyClient(api_key)
                  /\ RunWorkflow(w, KeyOrEmpty(pk))
                  /\ cli' = [ran |-> TRUE, run |-> run, has_client |-> TRUE,
                             api_key |-> api_key, project_key |-> pk,
                             invoked |-> <<w>>,
                             exit |-> \* return 0 if success else 1
                                      IF result'.kind = "raise"
                                      THEN [returned |-> FALSE, code |-> 1]
                                      ELSE [returned |-> TRUE,
                                            code |-> IF result'.ret THEN 0 ELSE 1]]

\* control is back with the caller; the call's locals are gone
Return ==
    /\ pc = "done"
    /\ pc' = "idle"
    /\ op' = "none"
    /\ arg' = << >>
    /\ requests' = << >>
    /\ console' = << >>
    /\ result' = NoResult
    /\ tmp_left' = 0
    /\ cli' = NoCli
    /\ UNCHANGED <<project_key, client>>

Next ==
    \/ ValidateTcpPortJson
    \/ GetProjects
    \/ GetFeatureFlags
    \/ GetEnvironments
    \/ GetFeatureFlag
    \/ CreateFeatureFlag
    \/ UpdateFlagVariations
    \/ ConfigureEnvironmentTargeting
    \/ EditJsonInEditor
    \/ SelectFromList
    \/ UpdateFlagVariationsWorkflow
    \/ CreateFlagWorkflow
    \/ InteractiveWorkflow
    \/ ValidateFlagsWorkflow
    \/ Main
    \/ Return

Spec == Init /\ [][Next]_vars

(***************************************************************************)
(* The listing loop step by step.  A server answers the URLs 1..n, each     *)
(* with one page whose next link leads to any of the URLs or has one of the *)
(* shapes that end the listing; the last page may answer with an error.     *)
(* arg holds the server and the locals url and all_items of the call.       *)
(***************************************************************************)
MaxUrls == 3
MaxRequests == MaxUrls + 2

PagingInit ==
    LET links(n) == {Link(shape, 0) : shape \in StopShapes}
                    \cup {Link("href", t) : t \in 1..n}
        servers(n) ==
            {[i \in 1..n |->
                [status |-> IF i = n THEN last ELSE 200, has_items |-> TRUE,
                 items |-> <<ItemNames[i][1]>>, link |-> f[i]]] :
             f \in [1..n -> links(n)], last \in {200, 404}}
    IN  /\ project_key = "pB"
        /\ tmp_left = 0
        /\ pc = "loop"
        /\ op \in {"get_projects", "get_feature_flags"}
        /\ arg \in {[pages |-> pages, url |-> 1, all_items |-> << >>] :
                        pages \in UNION {servers(n) : n \in 1..MaxUrls}}
        /\ requests = << >>
        /\ console = << >>
        /\ result = NoResult
        /\ cli = NoCli
        /\ client = LaunchDarklyClient("cliK")

\* one pass of the body of `while url:`
RequestPage ==
    /\ pc = "loop"
    /\ arg.url # 0
    /\ Len(requests) < MaxRequests
    /\ \E response \in {arg.pages[arg.url]} :
        /\ requests' = Append(requests,
                              IF op = "get_projects"
                              THEN Request("GET", "projects", "", "", "", arg.url, None)
                              ELSE Request("GET", "flags", project_key, "", "", arg.url,
                                           None))
        /\ console' = console \o ErrorLines(IF op = "get_projects"
                                             THEN "Error getting projects: "
                                             ELSE "Error getting feature flags: ",
                                             response.status)
        /\ IF ResponseRaises(response.status)
           THEN /\ pc' = "done"
                /\ result' = HTTPError(response.status)
                /\ arg' = arg
           ELSE /\ pc' = "loop"
                /\ result' = result
                /\ arg' = [arg EXCEPT !.url = NextUrl(response),
                                      !.all_items = @ \o Items(response)]
    /\ UNCHANGED <<project_key, tmp_left, op, cli, client>>

\* url is None: the loop ends and all_items is returned
ReturnItems ==
    /\ pc = "loop"
    /\ arg.url = 0
    /\ pc' = "done"
    /\ result' = Returned(arg.all_items)
    /\ UNCHANGED <<project_key, tmp_left, op, arg, requests, console, cli, client>>

PagingNext == RequestPage \/ ReturnItems

\* the call keeps running: a request is answered and the loop goes on
PagingSpec ==
    PagingInit /\ [][PagingNext]_vars /\ WF_vars(RequestPage) /\ WF_vars(ReturnItems)

(***************************************************************************)
(* Properties.                                                              *)
(***************************************************************************)
Listings == {"get_projects", "get_feature_flags"}
VariationMethods == {"create_feature_flag", "update_flag_variations"}
SingleRequestMethods ==
    {"get_environments", "get_feature_flag", "create_feature_flag",
     "update_flag_variations", "configure_environment_targeting"}

\* a JSON integer: a number without fraction, not true or false
IsJsonInteger(s) == s.t = "int"

IsValidPortObject(v) ==
    v.t = "dict" /\ v.has /\ IsJsonInteger(v.port) /\ 0 <= v.port.n /\ v.port.n <= 65535

\* C1: validate_tcp_port_json returns True exactly for an object whose tcp_port
\* is an integer in [0, 65535], and raises for every other input (booleans,
\* floats, strings and null included).
C1_AcceptsExactlyIntegerPorts ==
    op = "validate_tcp_port_json" =>
        IF IsValidPortObject(arg.json_obj)
        THEN result.kind = "return" /\ result.ret = TRUE
        ELSE result.kind = "raise"

\* the message of the first constraint a value violates, "" when it violates none
ExpectedMessage(v) ==
    IF v.t # "dict" THEN "JSON must be an object"
    ELSE IF ~v.has THEN "JSON must contain a tcp_port property"
    ELSE IF ~IsJsonInteger(v.port) THEN "tcp_port must be an integer"
    ELSE IF v.port.n < 0 \/ v.port.n > 65535 THEN "tcp_port must be between 0 and 65535"
    ELSE ""

\* C3: each invalid input is rejected with the message of the first constraint
\* it violates, in the order object, key present, integer, range.
C3_ExactMessagePerConstraint ==
    (op = "validate_tcp_port_json" /\ ExpectedMessage(arg.json_obj) # "") =>
        /\ result.kind = "raise"
        /\ result.exc = "ValueError"
        /\ result.msg = ExpectedMessage(arg.json_obj)

FailsValidation(variation) ==
    variation.has_value /\ validate_tcp_port_json(variation.value).kind = "raise"

InvalidPositions(variations) ==
    {i \in 1..Len(variations) : FailsValidation(variations[i])}

\* C2: create_feature_flag and update_flag_variations issue no request when a
\* variation at any position fails validation; a request is issued only after
\* every variation was validated successfully.
C2_NoRequestBeforeValidation ==
    op \in VariationMethods =>
        /\ InvalidPositions(arg.variations) # {} => requests = << >>
        /\ requests # << >> =>
              \A i \in 1..Len(arg.variations) :
                  /\ arg.variations[i].has_value
                  /\ validate_tcp_port_json(arg.variations[i].value).kind = "return"

C2_Witness ==
    /\ op = "create_feature_flag"
    /\ Len(arg.variations) = 3
    /\ InvalidPositions(arg.variations) = {3}
    /\ project_key = "pB"
    /\ result.kind = "raise"
    /\ result.exc = "ValueError"
    /\ result.pos = 3
    /\ requests = << >>

PkResolved == op = "get_projects" \/ arg.project_key # "" \/ project_key # ""

IsSuccess(status) == 200 <= status /\ status <= 299
IsErrorStatus(status) == 400 <= status /\ status <= 599

RECURSIVE ConcatItems(_, _)
ConcatItems(pages, k) ==
    IF k = 0 THEN << >> ELSE ConcatItems(pages, k - 1) \o pages[k].items

\* C4: for a chain of n successful pages, the listing issues exactly n GETs (the
\* starting URL, then each page's next href, in order) and returns the pages'
\* items concatenated in page order.
C4_PaginationAccumulates ==
    (op \in Listings /\ PkResolved
        /\ \A k \in 1..Len(arg.pages) : IsSuccess(arg.pages[k].status)) =>
        /\ result.kind = "return"
        /\ Len(requests) = Len(arg.pages)
        /\ \A k \in 1..Len(requests) :
              /\ requests[k].method = "GET"
              /\ requests[k].page = IF k = 1 THEN 1 ELSE arg.pages[k - 1].link.href
        /\ result.ret = ConcatItems(arg.pages, Len(arg.pages))

C4_Witness ==
    /\ op = "get_projects"
    /\ Len(arg.pages) = 3
    /\ \A k \in 1..3 : arg.pages[k].status = 200
    /\ result.kind = "return"
    /\ result.ret = <<"i11", "i12", "i21", "i22", "i31", "i32">>
    /\ Len(requests) = 3

ErrorPages(pages) == {k \in 1..Len(pages) : IsErrorStatus(pages[k].status)}
FirstErrorPage(pages) ==
    CHOOSE k \in ErrorPages(pages) : \A j \in ErrorPages(pages) : k <= j

\* C5: when the request for page k fails, the listing raises the HTTP error,
\* requests no further page and returns no partial list.
C5_ListingPropagatesError ==
    (op \in Listings /\ PkResolved /\ ErrorPages(arg.pages) # {}) =>
        LET k == FirstErrorPage(arg.pages)
        IN  /\ result.kind = "raise"
            /\ result.exc = "HTTPError"
            /\ result.pos = arg.pages[k].status
            /\ result.ret = None
            /\ Len(requests) = k
            /\ requests[k].page = k

C5_Witness ==
    /\ op = "get_feature_flags"
    /\ Len(arg.pages) = 3
    /\ arg.pages[1].status = 200
    /\ Len(arg.pages[1].items) = 2
    /\ arg.pages[2].status = 404
    /\ arg.pages[3].status = 200
    /\ result.kind = "raise"
    /\ Len(requests) = 2

\* the status of the last response the call received
LastStatus ==
    IF op \in Listings
    THEN arg.pages[requests[Len(requests)].page].status
    ELSE arg.response.status

PrintedStatusAndBody(what) ==
    /\ Len(console) >= 2
    /\ console[Len(console) - 1].status = what
    /\ console[Len(console) - 1].text # "Response: "
    /\ console[Len(console)].status = what
    /\ console[Len(console)].text = "Response: "

\* C6 as stated: every status outside 200..299 prints status and body and
\* raises; every status inside 200..299 returns the parsed response.
C6_RaisesOnNon2xx ==
    (op \in Listings \cup SingleRequestMethods /\ requests # << >>) =>
        IF IsSuccess(LastStatus)
        THEN result.kind = "return"
        ELSE result.kind = "raise" /\ PrintedStatusAndBody(LastStatus)

\* C6 amended: every status in 400..599 prints status and body and raises the
\* HTTP error; every status below 400 (1xx and 3xx included) returns the parsed
\* response.
C6_RaisesOn4xx5xx ==
    (op \in Listings \cup SingleRequestMethods /\ requests # << >>) =>
        IF IsErrorStatus(LastStatus)
        THEN /\ result.kind = "raise"
             /\ result.exc = "HTTPError"
             /\ result.pos = LastStatus
             /\ PrintedStatusAndBody(LastStatus)
        ELSE /\ LastStatus < 400
             /\ result.kind = "return"
             /\ console = << >>
             /\ op \in SingleRequestMethods \ {"get_environments"} =>
                    result.ret = arg.response.body
             /\ op = "get_environments" =>
                    result.ret = IF arg.response.body.has_environments
                                 THEN arg.response.body.environments ELSE << >>

C6_Witness ==
    /\ op = "configure_environment_targeting"
    /\ arg.response.status = 300
    /\ result.kind = "return"
    /\ result.ret = Doc(300)
    /\ Len(requests) = 1

AllHaveValues(variations) == \A i \in 1..Len(variations) : variations[i].has_value

Reports(i, variations) ==
    /\ result.kind = "raise"
    /\ result.exc = "ValueError"
    /\ result.msg = "Validation failed for variation "
    /\ result.pos = i
    /\ result.inner = validate_tcp_port_json(variations[i].value).msg

\* C9 as stated: the error raised for a list with several invalid variations
\* reports every invalid variation by its 1-based position and message.
C9_ReportsEveryInvalid ==
    (op \in VariationMethods /\ PkResolved /\ AllHaveValues(arg.variations)) =>
        \A i \in InvalidPositions(arg.variations) : Reports(i, arg.variations)

\* C9 amended: the error reports the first invalid variation only, by its
\* 1-based position and the message of the constraint it violates.
C9_ReportsFirstInvalid ==
    (op \in VariationMethods /\ PkResolved /\ AllHaveValues(arg.variations)
        /\ InvalidPositions(arg.variations) # {}) =>
        \E i \in InvalidPositions(arg.variations) :
            /\ \A j \in InvalidPositions(arg.variations) : i <= j
            /\ Reports(i, arg.variations)
            /\ \A j \in InvalidPositions(arg.variations) \ {i} :
                  ~Reports(j, arg.variations)

C9_Witness ==
    /\ op = "update_flag_variations"
    /\ AllHaveValues(arg.variations)
    /\ InvalidPositions(arg.variations) = {2, 3}
    /\ result.kind = "raise"
    /\ result.pos = 2
    /\ result.inner = "tcp_port must be an integer"

Workflows ==
    {"update_flag_variations_workflow", "create_flag_workflow", "interactive_workflow"}

\* the client printed an HTTP error for a call other than the targeting one
ClientCallFailed ==
    \E i \in DOMAIN console :
        /\ console[i].status >= 400
        /\ console[i].text \in {"Error getting projects: ",
                                 "Error getting feature flags: ",
                                 "Error getting feature flag details: ",
                                 "Error creating feature flag: ",
                                 "Error updating feature flag variations: "}

\* C7: no workflow lets a validation error or an HTTP error of a client call
\* reach its caller, and a workflow during which a client call listing
\* projects, listing flags, fetching a flag, creating or updating failed
\* returns False.
C7_WorkflowsReturnFalseOnFailure ==
    op \in Workflows =>
        /\ ~(result.kind = "raise" /\ result.exc \in {"HTTPError", "ValueError"})
        /\ ClientCallFailed => result = Returned(FALSE)

\* C8: on every exit path of edit_json_in_editor (value returned, None
\* returned, editor not launched, read failed, write failed) the temporary
\* file no longer exists.
C8_TempFileAlwaysRemoved ==
    op = "edit_json_in_editor" => tmp_left = 0

\* C10: the file is read after the editor has exited; content that is not
\* valid JSON gives None without raising, valid content gives the parsed
\* content of the edited file, not the value passed in.
C10_ReturnsEditedOrNone ==
    (op = "edit_json_in_editor" /\ arg.fault = "none") =>
        /\ result.kind = "return"
        /\ (arg.edit.kind = "typed" /\ arg.edit.damage = "none") =>
              result.ret = Some(arg.edit.doc)
        /\ (arg.edit.kind = "typed" /\ arg.edit.damage # "none") =>
              result.ret = NoneDoc
        /\ arg.edit.kind = "unchanged" => result.ret = Some(arg.json_data)

C10_Witness ==
    /\ op = "edit_json_in_editor"
    /\ arg.fault = "none"
    /\ arg.json_data = <<Port443>>
    /\ arg.edit = Typed(<<Port8080>>, "none")
    /\ result = Returned(Some(<<Port8080>>))

C10_WitnessInvalid ==
    /\ op = "edit_json_in_editor"
    /\ arg.fault = "none"
    /\ arg.edit = Typed(<<Port8080>>, "truncated")
    /\ result = Returned(NoneDoc)

\* C11: when the editor exits without changing the file, edit_json_in_editor
\* returns a value equal to the one passed in: same keys, same array order,
\* same value types.
C11_RoundTripPreservesValue ==
    (op = "edit_json_in_editor" /\ arg.fault = "none" /\ arg.edit = Unchanged) =>
        result = Returned(Some(arg.json_data))

C11_Witness ==
    /\ op = "edit_json_in_editor"
    /\ arg.fault = "none"
    /\ arg.edit = Unchanged
    /\ arg.json_data = <<Var(Dict(TRUE, BoolS(1))), NoValue, Var(NonDict("list", 0))>>
    /\ result = Returned(Some(arg.json_data))

\* the flags the listing answered with, when it succeeded
ListedFlags == arg.flag_pages[1].items

\* the validate workflow listed the flags
ValidateListed ==
    /\ op = "validate_flags_workflow"
    /\ arg.flag_pages # << >>
    /\ arg.flag_pages[1].status < 400

\* every listed flag was asked for
EachFlagAskedFor ==
    /\ "details" \in DOMAIN arg
    /\ \A i \in 1..Len(ListedFlags) : ListedFlags[i] \in DOMAIN arg.details

\* the validate workflow listed the flags and fetched each without failure
ValidateRanThrough ==
    /\ ValidateListed
    /\ EachFlagAskedFor
    /\ \A i \in 1..Len(ListedFlags) : arg.details[ListedFlags[i]].status < 400

FetchesOf(flag_key) ==
    Cardinality({i \in 1..Len(requests) :
                    /\ requests[i].method = "GET"
                    /\ requests[i].path = "flags"
                    /\ requests[i].flag = flag_key})

PatchesOf(flag_key) ==
    {i \in 1..Len(requests) : requests[i].method = "PATCH" /\ requests[i].flag = flag_key}

FlagIsInvalid(flag_key) ==
    \E i \in 1..Len(arg.details[flag_key].body.variations) :
        FailsValidation(arg.details[flag_key].body.variations[i])

InvalidFlags == {ListedFlags[i] : i \in {j \in 1..Len(ListedFlags) : FlagIsInvalid(ListedFlags[j])}}

EditedBy(flag_key, run) ==
    IF run.edit.kind = "unchanged" THEN arg.details[flag_key].body.variations
    ELSE IF run.edit.damage = "none" THEN run.edit.doc
    ELSE << >>

UpdateIsSent(flag_key, run) ==
    /\ EditedBy(flag_key, run) # << >>
    /\ run.confirm.s \in {"y", "Y"}
    /\ InvalidPositions(EditedBy(flag_key, run)) = {}

MainRanWithKey == cli.ran /\ cli.has_client

Present(x) == x \notin {None, ""}
LegacyComplete(argv) ==
    /\ Present(argv.create_flag_key)
    /\ Present(argv.create_flag_name)
    /\ Present(argv.create_variations)

\* the workflow the command line asks for
ExpectedWorkflow(argv) ==
    IF argv.command = "validate" THEN "validate_flags_workflow"
    ELSE IF argv.command = "update" THEN "update_flag_variations_workflow"
    ELSE IF argv.command = "create" THEN "create_flag_workflow"
    ELSE IF LegacyComplete(argv) THEN "create_flag_workflow"
    ELSE "interactive_workflow"

CreateArgsAre(flag_key, flag_name, variations) ==
    /\ arg.flag_key = flag_key
    /\ arg.flag_name = flag_name
    /\ arg.variations_path = variations
    /\ arg.env_rules = << >>
    /\ arg.project_key = KeyOrEmpty(cli.project_key)

ExpectedArguments(argv) ==
    IF argv.command = "validate"
    THEN arg.fix_invalid = argv.fix /\ arg.project_key = KeyOrEmpty(cli.project_key)
    ELSE IF argv.command = "update" THEN TRUE
    ELSE IF argv.command = "create"
    THEN CreateArgsAre(argv.flag_key, argv.flag_name, argv.variations)
    ELSE IF LegacyComplete(argv)
    THEN CreateArgsAre(argv.create_flag_key, argv.create_flag_name, argv.create_variations)
    ELSE TRUE

\* one workflow runs, the one the command line asks for, with its arguments
MainDispatchesOneWorkflow ==
    MainRanWithKey =>
        /\ Len(cli.invoked) = 1
        /\ op = ExpectedWorkflow(cli.run.argv)
        /\ cli.invoked[1].workflow = op
        /\ ExpectedArguments(cli.run.argv)

WorkflowReturnedTrue == result.kind = "return" /\ result.ret = TRUE

\* main returns 0 after a workflow that returned True and 1 after any other
MainReturnsExitCode ==
    MainRanWithKey =>
        /\ cli.exit.returned
        /\ cli.exit.code = IF WorkflowReturnedTrue THEN 0 ELSE 1

\* the exit code over the runs in which the workflow returned
MainExitCodeAfterReturn ==
    MainRanWithKey /\ result.kind = "return" =>
        /\ cli.exit.returned
        /\ cli.exit.code = IF result.ret THEN 0 ELSE 1

\* C12: every run of main with an API key invokes exactly one workflow, the
\* one its subcommand or its legacy arguments select (validate with --fix and
\* the project key; update; create with flag key, flag name, variations file
\* and no environment rules; legacy create when all three legacy arguments
\* are present; the interactive menu otherwise), and main returns 0 if that
\* workflow returned True and 1 otherwise.
C12_MainDispatch == MainDispatchesOneWorkflow /\ MainReturnsExitCode

\* the value of an environment variable once the .env file has been loaded
EnvironmentValue(run, name) ==
    IF run.env[name] # None THEN run.env[name] ELSE run.dotenv[name]

ApiKeyAvailable(run) ==
    Present(run.argv.api_key) \/ Present(EnvironmentValue(run, "LD_API_KEY"))

\* C13: when neither --api-key nor LD_API_KEY gives a non-empty API key, main
\* prints that an API key is required and returns 1; it constructs no client,
\* runs no workflow and issues no request.
C13_MissingApiKey ==
    (cli.ran /\ ~ApiKeyAvailable(cli.run)) =>
        /\ console = <<Line("Error: API key is required. ")>>
        /\ cli.exit = [returned |-> TRUE, code |-> 1]
        /\ ~cli.has_client
        /\ cli.invoked = << >>
        /\ op = "main"
        /\ requests = << >>

C13_Witness ==
    /\ cli.ran
    /\ cli.run.argv.api_key = ""
    /\ cli.run.env.LD_API_KEY = ""
    /\ cli.run.dotenv.LD_API_KEY = None
    /\ ~cli.has_client
    /\ cli.exit.code = 1
    /\ requests = << >>

\* the command-line value when one is given (non-empty), else the environment's
FromFlagOrEnvironment(flag, run, name) ==
    IF Present(flag) THEN flag ELSE EnvironmentValue(run, name)

\* C14: the client is constructed with the API key of --api-key when given,
\* else of LD_API_KEY, and with the project key of --project-key when given,
\* else of LD_PROJECT_KEY; a command-line value wins over the environment's,
\* and the environment is read after the .env file was loaded.
C14_EnvironmentIsFallback ==
    MainRanWithKey =>
        /\ cli.api_key = FromFlagOrEnvironment(cli.run.argv.api_key, cli.run, "LD_API_KEY")
        /\ cli.project_key =
              FromFlagOrEnvironment(cli.run.argv.project_key, cli.run, "LD_PROJECT_KEY")
        /\ Present(cli.run.argv.api_key) => cli.api_key = cli.run.argv.api_key
        /\ Present(cli.run.argv.project_key) => cli.project_key = cli.run.argv.project_key
        /\ (op = "validate_flags_workflow" /\ Present(cli.project_key)) =>
              \A i \in 1..Len(requests) : requests[i].project = cli.project_key

C14_Witness ==
    /\ MainRanWithKey
    /\ cli.run.argv.project_key = "pA"
    /\ cli.run.env.LD_PROJECT_KEY = "pE"
    /\ cli.run.dotenv.LD_PROJECT_KEY = "pD"
    /\ cli.project_key = "pA"
    /\ op = "validate_flags_workflow"
    /\ Len(requests) > 0
    /\ requests[1].project = "pA"

(***************************************************************************)
(* The interactive menu.                                                   *)
(***************************************************************************)
ThreeThenYes == <<In("int", 3, ""), In("text", 0, "y")>>

MenuReached == op = "interactive_workflow" /\ "menu_script" \in DOMAIN arg

\* the validate workflow ran with fix_invalid True for the selected project
ValidateRanWithFix ==
    /\ "fix_invalid" \in DOMAIN arg
    /\ arg.fix_invalid = TRUE
    /\ "flag_pages" \in DOMAIN arg
    /\ \E i \in 1..Len(requests) :
          /\ requests[i].method = "GET"
          /\ requests[i].path = "flags"
          /\ requests[i].project = project_key

\* C17: at the menu, 3 followed by y runs validate_flags_workflow once with
\* fix_invalid True and the selected project key, and interactive_workflow
\* returns what that workflow returned.
C17_MenuChoiceThreeValidates ==
    (MenuReached /\ arg.menu_script = ThreeThenYes) =>
        /\ ValidateRanWithFix
        /\ result.kind = "return"
        /\ \A i \in 1..Len(console) : console[i].text # "Please enter 1 or 2"

(***************************************************************************)
(* select_from_list.                                                        *)
(***************************************************************************)
Decides(items, answer) ==
    \/ answer.k \in {"q", "Q"}
    \/ answer.k = "int" /\ 1 <= answer.n /\ answer.n <= Len(items)

DecidingAnswers(items, inputs) == {i \in 1..Len(inputs) : Decides(items, inputs[i])}

FirstDeciding(items, inputs) ==
    CHOOSE i \in DecidingAnswers(items, inputs) :
        \A j \in DecidingAnswers(items, inputs) : i <= j

\* the message printed for an answer that does not decide
MessageFor(items, answer) ==
    IF answer.k = "int"
    THEN [text |-> "Please enter a number between 1 and ", status |-> Len(items)]
    ELSE [text |-> "Please enter a valid number", status |-> 0]

PromptsPrinted == {i \in 1..Len(console) : console[i].text = "Enter number (or 'q' to quit): "}

\* after the listing, each of the first n answers was prompted for and
\* answered with its message, in order
RepromptedFor(items, inputs, n) ==
    \A i \in 1..n :
        /\ console[Len(items) + 2 * i].text = "Enter number (or 'q' to quit): "
        /\ console[Len(items) + 2 * i + 1] = MessageFor(items, inputs[i])

\* C18: select_from_list returns None or an element of items; None without a
\* prompt for an empty list; otherwise it prompts until the first answer that
\* is q or Q (None) or an integer n in 1..len(items) (items[n-1]); every other
\* answer prints a message and is followed by another prompt.
C18_SelectFromList ==
    op = "select_from_list" =>
        /\ result.kind = "return" =>
              \/ result.ret = None
              \/ \E i \in 1..Len(arg.items) : result.ret = arg.items[i]
        /\ arg.items = << >> => result = Returned(None) /\ PromptsPrinted = {}
        /\ (arg.items # << >> /\ DecidingAnswers(arg.items, arg.inputs) # {}) =>
              LET f == FirstDeciding(arg.items, arg.inputs)
              IN  /\ result = Returned(IF arg.inputs[f].k = "int"
                                       THEN arg.items[arg.inputs[f].n] ELSE None)
                  /\ Cardinality(PromptsPrinted) = f
                  /\ Len(console) = Len(arg.items) + 2 * f
                  /\ RepromptedFor(arg.items, arg.inputs, f - 1)
        /\ (arg.items # << >> /\ DecidingAnswers(arg.items, arg.inputs) = {}) =>
              /\ result.kind # "return"
              /\ Cardinality(PromptsPrinted) = Len(arg.inputs) + 1
              /\ RepromptedFor(arg.items, arg.inputs, Len(arg.inputs))

C18_Witness ==
    /\ op = "select_from_list"
    /\ arg.items = <<"a", "b", "c">>
    /\ arg.inputs = <<In("int", 4, ""), In("text", 0, "abc"), In("int", 3, "")>>
    /\ result = Returned("c")
    /\ Cardinality(PromptsPrinted) = 3

(***************************************************************************)
(* interactive_workflow: project selection and menu.                        *)
(***************************************************************************)
InteractiveRan == op = "interactive_workflow"

ProjectsListed == InteractiveRan /\ arg.project_pages[1].status < 400
ProjectsOffered == arg.project_pages[1].items

ProjectAnswer == arg.project_script[FirstDeciding(ProjectsOffered, arg.project_script)]

SelectionCancelled ==
    /\ ProjectsListed
    /\ \/ ProjectsOffered = << >>
       \/ /\ DecidingAnswers(ProjectsOffered, arg.project_script) # {}
          /\ ProjectAnswer.k \in {"q", "Q"}

ProjectSelected ==
    /\ ProjectsListed
    /\ ProjectsOffered # << >>
    /\ DecidingAnswers(ProjectsOffered, arg.project_script) # {}
    /\ ProjectAnswer.k = "int"

SelectedKey == ProjectsOffered[ProjectAnswer.n]

\* answers the menu does not list
Unlisted(answer) ==
    /\ answer.k \notin {"q", "Q"}
    /\ ~(answer.k = "int" /\ answer.n \in {1, 2})

\* the number of unlisted answers the menu script starts with
LeadingUnlisted(script) ==
    Cardinality({i \in 1..Len(script) : \A j \in 1..i : Unlisted(script[j])})

MenuAnswered(script) == LeadingUnlisted(script) < Len(script)
MenuAnswer(script) == script[LeadingUnlisted(script) + 1]

RepromptLines == {i \in 1..Len(console) : console[i].text = "Please enter 1 or 2"}

CreateOrUpdateRequests == {i \in 1..Len(requests) : requests[i].method \in {"POST", "PATCH"}}

\* what update_flag_variations_workflow(client, selected key) does and returns
BehavesAsUpdate ==
    /\ "flag_pages" \in DOMAIN arg
    /\ Cardinality({i \in 1..Len(requests) : requests[i].project = ""}) = 1
    /\ \A i \in 2..Len(requests) : requests[i].project = SelectedKey
    /\ Len(requests) >= 2
    /\ requests[2].method = "GET" /\ requests[2].path = "flags" /\ requests[2].flag = ""
    /\ result.kind = "return" => result.ret \in BOOLEAN
    /\ result = Returned(TRUE) <=>
          /\ "update_status" \in DOMAIN arg
          /\ arg.update_status \in 1..399
          /\ requests[Len(requests)].method = "PATCH"

C19_MenuOutcome ==
    /\ SelectionCancelled =>
          /\ result = Returned(FALSE)
          /\ "menu_script" \notin DOMAIN arg
          /\ Len(requests) = 1
    /\ ProjectSelected =>
          /\ MenuReached
          /\ project_key = SelectedKey
          /\ Cardinality(RepromptLines) >= LeadingUnlisted(arg.menu_script)
          /\ (MenuAnswered(arg.menu_script)
                /\ MenuAnswer(arg.menu_script).k \in {"q", "Q"}) =>
                /\ result = Returned(FALSE)
                /\ CreateOrUpdateRequests = {}
                /\ Len(requests) = 1
                /\ Cardinality(RepromptLines) = LeadingUnlisted(arg.menu_script)
          /\ (MenuAnswered(arg.menu_script)
                /\ MenuAnswer(arg.menu_script) = In("int", 2, "")) =>
                /\ BehavesAsUpdate
                /\ Cardinality(RepromptLines) = LeadingUnlisted(arg.menu_script)
          /\ ~MenuAnswered(arg.menu_script) =>
                /\ result.kind # "return"
                /\ Cardinality(RepromptLines) = Len(arg.menu_script)
                /\ CreateOrUpdateRequests = {}

\* a cancelled selection leaves the project key of the client as it was
C19_CancelKeepsKey ==
    (InteractiveRan' /\ SelectionCancelled') =>
        project_key' = IF cli'.ran THEN KeyOrEmpty(cli'.project_key) ELSE project_key

\* C19: a cancelled project selection gives False and leaves
\* client.project_key unchanged; after a selection client.project_key is the
\* selected key on every path; at the menu q gives False without a create or
\* update request, an unlisted answer is followed by another prompt, and
\* choice 2 behaves as update_flag_variations_workflow with the selected key.
C19_InteractiveMenu == []C19_MenuOutcome /\ [][C19_CancelKeepsKey]_vars

C19_Witness ==
    /\ ProjectSelected
    /\ SelectedKey = "pC"
    /\ arg.menu_script = <<In("text", 0, "abc"), In("int", 2, "")>>
    /\ Cardinality(RepromptLines) = 1
    /\ project_key = "pC"
    /\ result = Returned(TRUE)

(***************************************************************************)
(* interactive_workflow: choice 1.                                          *)
(***************************************************************************)
\* choice 1 was the first menu answer, a name was typed and the key prompt
\* was answered
CreateChosen ==
    /\ ProjectSelected
    /\ Len(arg.menu_script) >= 3
    /\ arg.menu_script[1] = In("int", 1, "")
    /\ arg.menu_script[2].k = "text"

TypedName == arg.menu_script[2].s

\* the name in lower case with a hyphen for each space
ExpectedSuggestion(flag_name) ==
    CASE flag_name = "My Flag" -> <<"m", "y", "-", "f", "l", "a", "g">>
      [] flag_name = "tcp  GW-2" -> <<"t", "c", "p", "-", "-", "g", "w", "-", "2">>

ChosenKey ==
    IF arg.menu_script[3].k = "empty"
    THEN ExpectedSuggestion(TypedName)
    ELSE Chars(arg.menu_script[3].s)

EditorGaveNothing ==
    /\ "editor" \in DOMAIN arg
    /\ arg.editor.fault = "none"
    /\ arg.editor.edit.kind = "typed"
    /\ arg.editor.edit.damage # "none" \/ arg.editor.edit.doc = << >>

EditorGaveTyped ==
    /\ "editor" \in DOMAIN arg
    /\ arg.editor.fault = "none"
    /\ arg.editor.edit.kind = "typed"
    /\ arg.editor.edit.damage = "none"
    /\ arg.editor.edit.doc # << >>

EditorGaveTemplate ==
    /\ "editor" \in DOMAIN arg
    /\ arg.editor.fault = "none"
    /\ arg.editor.edit.kind = "unchanged"

CreateRequests == {i \in 1..Len(requests) : requests[i].method = "POST"}

\* the temporary variations file holds doc and was handed to
\* create_flag_workflow with the selected project and no environment rules
CreatedFrom(doc) ==
    /\ Loads(arg.variations_file.text).ok
    /\ Loads(arg.variations_file.text).value = doc
    /\ \A i \in CreateRequests :
          /\ requests[i].project = SelectedKey
          /\ requests[i].payload.key = ChosenKey
          /\ requests[i].payload.name = TypedName
          /\ requests[i].payload.variations = doc
    /\ Cardinality(CreateRequests) <= 1
    /\ \A i \in 1..Len(requests) : requests[i].method # "PATCH"
    /\ result.kind = "return"
    /\ result = Returned(TRUE) <=>
          (arg.create_status \in 1..399 /\ CreateRequests # {})
    /\ tmp_left = 0

\* C20: on choice 1 with a name, an empty key answer selects the suggested
\* key; the edited variations go through a temporary file to
\* create_flag_workflow with the selected project key and no environment
\* rules; the file is gone when interactive_workflow ends, and the result is
\* that of create_flag_workflow.  Without an editor result no temporary
\* variations file exists, the result is False and nothing is created.
C20_InteractiveCreate ==
    CreateChosen =>
        /\ EditorGaveNothing =>
              /\ result = Returned(FALSE)
              /\ "variations_write_ok" \notin DOMAIN arg
              /\ "variations_file" \notin DOMAIN arg
              /\ tmp_left = 0
              /\ CreateRequests = {}
        /\ (EditorGaveTyped \/ EditorGaveTemplate) => "variations_write_ok" \in DOMAIN arg
        /\ (EditorGaveTyped /\ arg.variations_write_ok) =>
              CreatedFrom(arg.editor.edit.doc)
        /\ (EditorGaveTemplate /\ arg.variations_write_ok) =>
              /\ Loads(arg.variations_file.text).ok
              /\ CreatedFrom(Loads(arg.variations_file.text).value)
              /\ Len(Loads(arg.variations_file.text).value) >= 1

C20_Witness ==
    /\ CreateChosen
    /\ arg.menu_script = <<In("int", 1, ""), In("text", 0, "tcp  GW-2"), In("empty", 0, "")>>
    /\ EditorGaveTyped
    /\ arg.editor.edit.doc = <<Port8080>>
    /\ arg.variations_write_ok
    /\ Cardinality(CreateRequests) = 1
    /\ result = Returned(TRUE)
    /\ tmp_left = 0

(***************************************************************************)
(* The fields of the client.                                                *)
(***************************************************************************)
ClientMethods ==
    {"validate_tcp_port_json", "get_projects", "get_feature_flags", "get_environments",
     "get_feature_flag", "create_feature_flag", "update_flag_variations",
     "configure_environment_targeting"}

\* the values __init__ gives the fields for an API key
AsConstructed(api_key) ==
    /\ client.api_key = api_key
    /\ client.base_url = "https://app.launchdarkly.com/api/v2"
    /\ client.headers = [Authorization |-> api_key, ContentType |-> "application/json"]

\* a call of a client method changes no field; a workflow called on an
\* existing client changes none but project_key
C21_CallKeepsFields ==
    /\ op' \in ClientMethods => (project_key' = project_key /\ client' = client)
    /\ (op' \notin {"none", "main"} /\ ~cli'.ran) => client' = client

\* the project key given to a method is the one the call is made for, and a
\* client that main constructed holds the constructor's values when the
\* workflow has ended
C21_FieldsAsConstructed ==
    /\ (op \in ClientMethods /\ "project_key" \in DOMAIN arg /\ arg.project_key # "") =>
          \A i \in 1..Len(requests) : requests[i].project = arg.project_key
    /\ (cli.ran /\ cli.has_client) => AsConstructed(cli.api_key)
    /\ \E k \in {"cliK", "envK", "dotK"} : AsConstructed(k)

\* C21: no client method changes a field of the client, a project key passed
\* to a method is used for that call and not stored, and over every sequence
\* of operations api_key, base_url and headers keep the values of the
\* construction; project_key is the only field a workflow writes.
C21_OnlyProjectKeyIsWritten == [][C21_CallKeepsFields]_vars /\ []C21_FieldsAsConstructed

C21_Witness ==
    /\ op = "interactive_workflow"
    /\ ~cli.ran
    /\ project_key = "pC"
    /\ AsConstructed("envK")
    /\ result = Returned(TRUE)

(***************************************************************************)
(* The project key main resolved.                                           *)
(***************************************************************************)
ProjectKeySupplied == MainRanWithKey /\ Present(cli.project_key)

\* the workflow worked on the supplied project and asked for none
WorkedOnSuppliedProject ==
    /\ "project_pages" \notin DOMAIN arg
    /\ "project_script" \notin DOMAIN arg
    /\ \A i \in 1..Len(requests) : requests[i].project = cli.project_key
    /\ project_key = cli.project_key

SuppliedProjectFor(commands) ==
    (ProjectKeySupplied /\ cli.run.argv.command \in commands) => WorkedOnSuppliedProject

\* C22: when main resolved a project key from --project-key or
\* LD_PROJECT_KEY, the workflow of validate, create and update sends its
\* requests for that project, does not ask for a project, and
\* client.project_key is the supplied key when the workflow ends.
C22_SuppliedProjectIsUsed == SuppliedProjectFor({"validate", "create", "update"})

(***************************************************************************)
(* update_flag_variations_workflow.                                         *)
(***************************************************************************)
UpdateRan == pc = "done" /\ op = "update_flag_variations_workflow"

Patches == SelectSeq(requests, LAMBDA r : r.method = "PATCH")

Asked(field) == field \in DOMAIN arg

\* a selection that ended without an item: nothing to choose from, or q
Quit(items, script) ==
    \/ items = << >>
    \/ /\ DecidingAnswers(items, script) # {}
       /\ script[FirstDeciding(items, script)].k \in {"q", "Q"}

\* the flags of the listing that have a variation whose value is an object
\* and whose details were fetched, in listing order
Qualifies(flag) ==
    /\ arg.details[flag].status < 400
    /\ arg.details[flag].body.has_variations
    /\ \E i \in 1..Len(arg.details[flag].body.variations) :
          /\ arg.details[flag].body.variations[i].has_value
          /\ arg.details[flag].body.variations[i].value.t = "dict"

QualifyingFlags == SelectSeq(ListedFlags, Qualifies)

ProjectSelectionCancelled ==
    /\ Asked("project_script")
    /\ Quit(arg.project_pages[1].items, arg.project_script)

FlagSelectionCancelled ==
    /\ Asked("flag_script")
    /\ Quit(QualifyingFlags, arg.flag_script)

FlagWithoutVariations ==
    /\ Asked("details_again")
    /\ arg.details_again.status < 400
    /\ \/ ~arg.details_again.body.has_variations
       \/ arg.details_again.body.variations = << >>

\* what the editor handed back to the workflow
EditorReturned ==
    edit_json_in_editor(arg.details_again.body.variations, arg.editor.fault,
                        arg.editor.edit).result

EditorGaveNoResult ==
    /\ Asked("editor")
    /\ EditorReturned.kind = "return"
    /\ EditorReturned.ret.is_none

ConfirmedYes == Asked("confirm") /\ arg.confirm.k = "text" /\ arg.confirm.s \in {"y", "Y"}

ConfirmedOtherwise == Asked("confirm") /\ ~ConfirmedYes

\* C23: update_flag_variations_workflow sends a PATCH only after the
\* confirmation y or Y, at most one, and its payload carries exactly the
\* variations the editor returned; after any other confirmation, a cancelled
\* project or flag selection, a flag without variations or an editor that
\* yields no result it returns False and has sent no PATCH.
C23_UpdateOnlyAfterConfirmation ==
    UpdateRan =>
        /\ Len(Patches) <= 1
        /\ Patches # << >> =>
              /\ ConfirmedYes
              /\ Len(Patches[1].payload.patch) = 1
              /\ Patches[1].payload.patch[1].path = "/variations"
              /\ Patches[1].payload.patch[1].value = EditorReturned.ret.doc
        /\ (\/ ConfirmedOtherwise
            \/ ProjectSelectionCancelled
            \/ FlagSelectionCancelled
            \/ FlagWithoutVariations
            \/ EditorGaveNoResult) =>
              /\ result = Returned(FALSE)
              /\ Patches = << >>

C23_Witness ==
    /\ UpdateRan
    /\ ConfirmedYes
    /\ arg.confirm.s = "Y"
    /\ arg.editor.edit = Typed(<<Port8080>>, "none")
    /\ Len(Patches) = 1
    /\ Patches[1].payload.patch[1].value = <<Port8080>>
    /\ result = Returned(TRUE)

C23_WitnessCancelled ==
    /\ UpdateRan
    /\ ConfirmedOtherwise
    /\ arg.confirm.s = "yes"
    /\ result = Returned(FALSE)

(***************************************************************************)
(* An editor result that is valid JSON and empty.                           *)
(***************************************************************************)
\* the user typed [] or {} and the file was read back
EditorGaveEmpty ==
    /\ Asked("editor")
    /\ arg.editor.fault = "none"
    /\ \/ arg.editor.edit = Typed(<< >>, "none")
       \/ arg.editor.edit.kind = "typed_object"

\* the update workflow, or the creation of a flag from the menu
EditorWorkflowRan ==
    /\ pc = "done"
    /\ \/ op = "update_flag_variations_workflow"
       \/ op = "interactive_workflow" /\ Asked("environments")

WriteRequests == SelectSeq(requests, LAMBDA r : r.method \in {"POST", "PATCH"})

\* C24: an editor result that is valid JSON but empty, [] or {}, is treated
\* as a cancelled edit by the update workflow and by the creation of a flag in
\* interactive_workflow: the cancelled-or-invalid message is printed, False
\* is returned, and no create or update request is sent.
C24_EmptyEditIsCancelled ==
    (EditorWorkflowRan /\ EditorGaveEmpty) =>
        /\ result = Returned(FALSE)
        /\ console[Len(console)].text = "Editing cancelled or invalid JSON."
        /\ WriteRequests = << >>
        /\ ~Asked("confirm")

C24_Witness ==
    /\ op = "update_flag_variations_workflow"
    /\ pc = "done"
    /\ Asked("editor")
    /\ arg.editor.fault = "none"
    /\ arg.editor.edit.kind = "typed_object"
    /\ result = Returned(FALSE)
    /\ WriteRequests = << >>

C24_WitnessCreate ==
    /\ op = "interactive_workflow"
    /\ pc = "done"
    /\ Asked("environments")
    /\ arg.editor.fault = "none"
    /\ arg.editor.edit = Typed(<< >>, "none")
    /\ result = Returned(FALSE)

(***************************************************************************)
(* create_flag_workflow.                                                    *)
(***************************************************************************)
CreateRan == pc = "done" /\ op = "create_flag_workflow"

VariationsFileLoaded ==
    /\ Asked("variations_file")
    /\ arg.variations_file.exists
    /\ Loads(arg.variations_file.text).ok

VariationsFileFailed == Asked("variations_file") /\ ~VariationsFileLoaded

\* the create request was sent and answered without an error status
FlagCreated == VariationsFileLoaded /\ CreateRequests # {} /\ arg.create_status < 400

TargetingRequests == {i \in 1..Len(requests) : requests[i].method = "PATCH"}

TargetedEnvironments ==
    LET sent == SelectSeq(requests, LAMBDA r : r.method = "PATCH")
    IN  [i \in 1..Len(sent) |-> sent[i].env]

\* the environments of the entries that have a colon and a readable rules
\* file, in the order of the entries
ExpectedEnvironments ==
    LET usable == SelectSeq(arg.env_rules, LAMBDA r : r.colon /\ r.file = "valid")
    IN  [i \in 1..Len(usable) |-> usable[i].env]

\* the requests select_project sent to list the projects
OnlyProjectListing ==
    \A i \in 1..Len(requests) : requests[i].method = "GET" /\ requests[i].path = "projects"

CreateThenTargeting(NoRequests) ==
    CreateRan =>
        /\ VariationsFileFailed => (result = Returned(FALSE) /\ NoRequests)
        /\ (VariationsFileLoaded /\ ~FlagCreated) =>
              (result = Returned(FALSE) /\ TargetingRequests = {})
        /\ \A i \in TargetingRequests :
              FlagCreated /\ \E j \in CreateRequests : j < i
        /\ FlagCreated =>
              /\ result = Returned(TRUE)
              /\ Cardinality(CreateRequests) = 1
              /\ TargetedEnvironments = ExpectedEnvironments

\* C25 as stated: with a variations file that cannot be read or parsed
\* create_flag_workflow returns False and has sent no request at all.
C25_NoRequestBeforeLoading == CreateThenTargeting(requests = << >>)

\* C25: create_flag_workflow returns False with no request but those of the
\* project selection when the variations file cannot be read or parsed, and
\* False with no targeting request when the creation fails; targeting
\* requests follow a successful create request, one for each entry that has
\* a colon and a readable rules file, in the order of the entries; a
\* malformed entry, an unreadable rules file or a failing targeting request
\* leaves the remaining entries and the result True untouched.
C25_CreateThenTargeting == CreateThenTargeting(OnlyProjectListing)

C25_Witness ==
    /\ CreateRan
    /\ VariationsFileFailed
    /\ requests # << >>
    /\ OnlyProjectListing
    /\ result = Returned(FALSE)

C25_WitnessTargets ==
    /\ CreateRan
    /\ FlagCreated
    /\ Len(arg.env_rules) = 4
    /\ TargetedEnvironments = <<"test", "dev">>
    /\ result = Returned(TRUE)

C25_WitnessFailingTarget ==
    /\ CreateRan
    /\ FlagCreated
    /\ Len(arg.env_rules) = 2
    /\ arg.env_rules[1].status = 404
    /\ TargetedEnvironments = <<"staging", "production">>
    /\ result = Returned(TRUE)

(***************************************************************************)
(* The project a client method works on.                                    *)
(***************************************************************************)
ProjectMethods ==
    {"get_environments", "get_feature_flags", "get_feature_flag", "create_feature_flag",
     "update_flag_variations", "configure_environment_targeting"}

ProjectKeyMessages ==
    {"Project key is required to list environments",
     "Project key is required to list feature flags",
     "Project key is required to get a feature flag",
     "Project key is required to create a feature flag",
     "Project key is required to update a feature flag",
     "Project key is required to configure targeting rules"}

ProjectMethodRan == pc = "done" /\ op \in ProjectMethods

AllRequestsFor(pk) == \A i \in 1..Len(requests) : requests[i].project = pk

\* with a project the method sends a request, unless the check of the
\* variations raised first
SentOrInvalid ==
    \/ requests # << >>
    \/ /\ op \in {"create_feature_flag", "update_flag_variations"}
       /\ result.kind = "raise"
       /\ result.msg \notin ProjectKeyMessages

\* C26: each of get_environments, get_feature_flags, get_feature_flag,
\* create_feature_flag, update_flag_variations and
\* configure_environment_targeting works on the project_key argument when it
\* is non-empty and on the client's project_key otherwise, and with neither
\* set raises the ValueError for the missing project key before any request
\* and before the variations are validated.
C26_ProjectKeyResolution ==
    ProjectMethodRan =>
        /\ arg.project_key # "" => (AllRequestsFor(arg.project_key) /\ SentOrInvalid)
        /\ (arg.project_key = "" /\ project_key # "") =>
              (AllRequestsFor(project_key) /\ SentOrInvalid)
        /\ (arg.project_key = "" /\ project_key = "") =>
              /\ requests = << >>
              /\ result.kind = "raise"
              /\ result.exc = "ValueError"
              /\ result.msg \in ProjectKeyMessages

C26_Witness ==
    /\ ProjectMethodRan
    /\ op = "create_feature_flag"
    /\ arg.project_key = ""
    /\ project_key = ""
    /\ arg.variations = <<Var(NonDict("str", 0))>>
    /\ result = Raised("ValueError", "Project key is required to create a feature flag")
    /\ requests = << >>

C26_WitnessArgument ==
    /\ ProjectMethodRan
    /\ op = "configure_environment_targeting"
    /\ arg.project_key = "pA"
    /\ project_key = "pB"
    /\ Len(requests) = 1
    /\ requests[1].project = "pA"

C26_WitnessField ==
    /\ ProjectMethodRan
    /\ op = "get_feature_flags"
    /\ arg.project_key = ""
    /\ project_key = "pB"
    /\ requests # << >>
    /\ AllRequestsFor("pB")

(***************************************************************************)
(* Termination of the listing loop.                                         *)
(***************************************************************************)
\* the next link of a page has one of the shapes that end the listing
EndsListing(page) ==
    \/ ~page.link.has_links
    \/ ~page.link.links_truthy
    \/ ~page.link.has_next
    \/ ~page.link.next_truthy
    \/ ~page.link.has_href

\* following the next links from url ends, at a page that ends the listing
\* or answers with an error, before any URL comes a second time
RECURSIVE ChainEnds(_, _, _)
ChainEnds(pages, url, seen) ==
    IF url \in seen THEN FALSE
    ELSE IF pages[url].status >= 400 \/ EndsListing(pages[url]) THEN TRUE
    ELSE ChainEnds(pages, pages[url].link.href, seen \cup {url})

FiniteChain == ChainEnds(arg.pages, 1, {})

ListingEnded == pc = "done"

\* a page that ends the listing is the last one requested, and the listing
\* returns right after it
StopsAtEnd ==
    /\ \A k \in 1..Len(requests) :
          EndsListing(arg.pages[requests[k].page]) =>
              (k = Len(requests) /\ (arg.url = 0 \/ result.kind = "raise"))
    /\ (ListingEnded /\ result.kind = "return") =>
          (requests # << >> /\ EndsListing(arg.pages[requests[Len(requests)].page]))

NoUrlTwice ==
    ListingEnded =>
        \A i, j \in 1..Len(requests) : i # j => requests[i].page # requests[j].page

\* C27: get_projects and get_feature_flags end for every server whose next
\* links form a finite chain; a page without _links, with empty _links,
\* without next, with a null or empty next or a next without href is the
\* last one requested; and a call that has ended requested no URL twice.
C27_ListingTerminates ==
    /\ FiniteChain => <>ListingEnded
    /\ []StopsAtEnd
    /\ []NoUrlTwice

C27_Witness ==
    /\ ListingEnded
    /\ op = "get_feature_flags"
    /\ Len(arg.pages) = 3
    /\ Len(requests) = 3
    /\ requests[2].page = 3
    /\ arg.pages[2].link = Link("no_href", 0)
    /\ result = Returned(<<"i11", "i31", "i21">>)

(***************************************************************************)
(* The payload of a create request.                                         *)
(***************************************************************************)
\* zero-based index into a list
IsIndexOf(n, list) == 0 <= n /\ n < Len(list)

\* the kind is json and the variations are the caller's
CreateCarriesVariations ==
    \A i \in CreateRequests :
        /\ requests[i].payload.kind = "json"
        /\ op = "create_feature_flag" => requests[i].payload.variations = arg.variations

DefaultsExist ==
    \A i \in CreateRequests :
        /\ IsIndexOf(requests[i].payload.defaults.onVariation, requests[i].payload.variations)
        /\ IsIndexOf(requests[i].payload.defaults.offVariation, requests[i].payload.variations)

\* C28: in every create request the defaults onVariation (0) and
\* offVariation (1) are indices of variations of the payload, the kind is
\* json, and the variations are the caller's list, unchanged and in order.
C28_DefaultsAreValidIndices == CreateCarriesVariations /\ DefaultsExist

\* the create request of a flag with a single variation
C28_SingleVariationCreated ==
    /\ op = "create_feature_flag"
    /\ arg.variations = <<Port443>>
    /\ Len(requests) = 1
    /\ requests[1].payload.variations = <<Port443>>
    /\ requests[1].payload.defaults.offVariation = 1

(***************************************************************************)
(* The template interactive_workflow hands to the editor.                   *)
(***************************************************************************)
TemplateBuilt == pc = "done" /\ op = "interactive_workflow" /\ Asked("template")

EnvironmentsFetched == arg.environments.status < 400

FetchedEnvironments ==
    IF arg.environments.body.has_environments
    THEN arg.environments.body.environments
    ELSE << >>

\* the keys of the model's environments that contain prod in any case
KeysWithProd ==
    {<<"p", "r", "o", "d">>, <<"P", "r", "o", "d", "-", "E", "U">>,
     <<"n", "o", "n", "P", "R", "O", "D">>}

ExpectedPort(environment) ==
    IF environment.has_key /\ environment.key \in KeysWithProd THEN 443 ELSE 8080

PortOf(variation) == variation.value.port

\* C29: the template of interactive_workflow has one variation for each
\* environment get_environments returned, in the same order, with tcp_port
\* 443 when the key contains prod in any case and 8080 otherwise, also for
\* environments without name or key; it is the default of two variations
\* (443, 8080) when the list is empty or fetching raised; and every value of
\* the template is accepted by validate_tcp_port_json.
C29_TemplateIsValid ==
    TemplateBuilt =>
        /\ (EnvironmentsFetched /\ FetchedEnvironments # << >>) =>
              /\ Len(arg.template) = Len(FetchedEnvironments)
              /\ \A i \in 1..Len(arg.template) :
                    PortOf(arg.template[i]) = IntS(ExpectedPort(FetchedEnvironments[i]))
        /\ (~EnvironmentsFetched \/ FetchedEnvironments = << >>) =>
              /\ Len(arg.template) = 2
              /\ PortOf(arg.template[1]) = IntS(443)
              /\ PortOf(arg.template[2]) = IntS(8080)
        /\ \A i \in 1..Len(arg.template) :
              /\ arg.template[i].has_value
              /\ validate_tcp_port_json(arg.template[i].value) = Returned(TRUE)

C29_Witness ==
    /\ TemplateBuilt
    /\ EnvironmentsFetched
    /\ Len(FetchedEnvironments) = 3
    /\ ~FetchedEnvironments[2].has_key
    /\ <<PortOf(arg.template[1]), PortOf(arg.template[2]), PortOf(arg.template[3])>>
          = <<IntS(443), IntS(8080), IntS(443)>>

C29_WitnessDefault ==
    /\ TemplateBuilt
    /\ ~EnvironmentsFetched
    /\ arg.template = <<Port443, Port8080>>

(***************************************************************************)
(* select_flag, as update_flag_variations_workflow calls it.                *)
(***************************************************************************)
FlagsChecked == UpdateRan /\ Asked("details")

\* the numbered lines of the menu of flags
FlagsOffered ==
    LET shown == SelectSeq(console, LAMBDA l : l.status >= 1 /\ l.text \in {"f1", "f2"})
    IN  [i \in 1..Len(shown) |-> shown[i].text]

DetailRequests(flag) ==
    {i \in 1..Len(requests) :
        requests[i].method = "GET" /\ requests[i].path = "flags" /\ requests[i].flag = flag}

FailedChecks == {i \in 1..Len(ListedFlags) : arg.details[ListedFlags[i]].status >= 400}

ErrorsPrinted == {i \in 1..Len(console) : console[i].text = "Error checking flag "}

FlagAnswer == arg.flag_script[FirstDeciding(QualifyingFlags, arg.flag_script)]

FlagChosen ==
    /\ QualifyingFlags # << >>
    /\ DecidingAnswers(QualifyingFlags, arg.flag_script) # {}
    /\ FlagAnswer.k = "int"

\* C30: select_flag offers, in listing order and each once, exactly the
\* flags whose fetched details have a variation whose value is a JSON object;
\* a flag whose details request fails is left out and the flags after it are
\* still checked; with no such flag it returns None without prompting, and
\* otherwise the key of the chosen flag, or None on quit.
C30_SelectFlagOffersJsonFlags ==
    FlagsChecked =>
        /\ \A i \in 1..Len(ListedFlags) : DetailRequests(ListedFlags[i]) # {}
        /\ Cardinality(ErrorsPrinted) = Cardinality(FailedChecks)
        /\ FlagsOffered = QualifyingFlags
        /\ QualifyingFlags = << >> =>
              /\ arg.flag_script = << >>
              /\ console[Len(console)].text = "No JSON feature flags found in project "
              /\ arg.project_key # "" => PromptsPrinted = {}
              /\ result = Returned(FALSE)
        /\ FlagChosen =>
              /\ Asked("details_again")
              /\ Cardinality(DetailRequests(QualifyingFlags[FlagAnswer.n])) = 2
              /\ \A i \in 1..Len(ListedFlags) :
                    ListedFlags[i] # QualifyingFlags[FlagAnswer.n] =>
                        Cardinality(DetailRequests(ListedFlags[i])) = 1
        /\ FlagSelectionCancelled =>
              /\ ~Asked("details_again")
              /\ \A i \in 1..Len(ListedFlags) :
                    Cardinality(DetailRequests(ListedFlags[i])) = 1
              /\ result = Returned(FALSE)

C30_Witness ==
    /\ FlagsChecked
    /\ ListedFlags = <<"f1", "f2">>
    /\ arg.details["f1"].status = 404
    /\ arg.details["f2"] = FlagDetail(200, TRUE, <<NoValue, Var(Dict(FALSE, NoneS))>>)
    /\ FlagsOffered = <<"f2">>
    /\ FlagChosen
    /\ Cardinality(DetailRequests("f2")) = 2

C30_WitnessNone ==
    /\ FlagsChecked
    /\ ListedFlags = <<"f1", "f2">>
    /\ QualifyingFlags = << >>
    /\ result = Returned(FALSE)

====
